---- MODULE Spec2Model ----
(***************************************************************************)
(* Crypto Sentinel: the ingestion-to-notification pipeline.                *)
(*                                                                         *)
(*   app/websocket_listener.py  EthereumWebSocketListener                  *)
(*   app/gpt_analyzer.py        GPTAnalyzerService                         *)
(*   app/telegram_notifier.py   TelegramNotifierService                    *)
(*   app/main.py                analyze_token_manual / _background         *)
(*                                                                         *)
(* Conventions.  Text is a tuple of one-character strings, so that         *)
(* str.lower() and str.upper() are computed character by character.        *)
(* Scores are in tenths (8.2 is 82), confidences in hundredths (0.85 is    *)
(* 85).  time.time() is the integer variable now, in seconds.  Python's    *)
(* None is the record None where an AIAnalysis is expected.                *)
(***************************************************************************)
EXTENDS Integers, Sequences, FiniteSets, TLC

VARIABLES
    now,                \* time.time(), seconds
    ticks,              \* how often the clock has advanced
    _analysis_cache,    \* GPTAnalyzerService._analysis_cache: key -> (analysis, timestamp)
    tasks,              \* the coroutines in flight, one slot each
    ev,                 \* the step of analyze_token / of a pipeline task taken last
    last_success,       \* per cache key: when analyze_token last scored it, and the result
    tokens_collection,  \* DatabaseManager.tokens_collection: the contract addresses saved
    message_queue,      \* TelegramNotifierService.message_queue
    notifier_is_running,\* TelegramNotifierService.is_running
    enqueued,           \* the token alerts put on message_queue so far, with their times
    last_sent,          \* the message the worker dequeued last, and the chats it was sent to
    is_running,         \* EthereumWebSocketListener.is_running
    reconnect_attempts, \* EthereumWebSocketListener.reconnect_attempts
    websocket,          \* EthereumWebSocketListener.websocket: none, open or closed
    listener_pc,        \* where the coroutine start() stands
    waits,              \* the asyncio.sleep(wait_time) of start() since the last opened connection
    fails,              \* the connections failed or dropped since the last opened connection
    probe,              \* what the four calls of _is_erc20_token meet
    probed,             \* _is_erc20_token has returned
    is_token,           \* what _is_erc20_token returned
    processed_messages, \* TelegramScraperService.processed_messages
    processed_tweets,   \* TwitterMonitorService.processed_tweets
    processed_pairs,    \* DexscannerService.processed_pairs
    accepted,           \* the candidates the pollers have accepted: <<source, address>>
    forwarded,          \* the candidates of the pollers for which an analysis was started
    loop_time,          \* asyncio.get_event_loop().time(), in tenths of a second
    last_request_time,  \* DexscannerService.last_request_time
    rate_limiter,       \* DexscannerService.rate_limiter: the permits left
    dex_callers,        \* the calls of the Dexscreener API in progress
    request_starts,     \* the times at which the HTTP requests were started
    services,           \* SchedulerService.services: the names under which services are registered
    scheduler_is_running, \* SchedulerService.is_running
    job_loops,          \* per job of the scheduler: its coroutines alive, asleep or in recovery
    job_counts,         \* cleanup_count, analytics_count and health_checks_count
    errors_count,       \* SchedulerService.errors_count
    health_status,      \* health_status['services'] of the health check that returned last
    critical_alert,     \* what that health check did about the critical alert
    monitor_is_running, \* is_running of the Telegram scraper, the Twitter monitor and the notifier
    loop_pc,            \* where the background coroutine of each of these services and of the Dexscreener poller stands
    stop_requested,     \* the services whose stop method has been called
    scanner_web3,       \* TokenScannerService.web3 is set (initialize() has connected)
    scanner_cache,      \* TokenScannerService._cache: per data type, the data cached for the token
    scanner_stats,      \* TokenScannerService.stats: tokens_scanned, successful_scans, failed_scans
    scanned,            \* what the scan_token that returned last gathered and returned
    inbox,              \* the messages received on the websocket and not yet iterated over
    arrived,            \* how many messages the node has sent on the connection
    handling,           \* the message _handle_message is awaiting the block scan of
    probes,             \* per scanned block: where each _process_contract_creation stands
    handled,            \* the messages _handle_message has returned from, and how
    listener_stats,     \* messages_received, contracts_detected, tokens_processed, last_block_number
    sending,            \* the messages _message_worker has taken from the queue and is sending
    worker_tasks,       \* the _message_worker tasks start() has created: where each stands, and its message
    puts,               \* how many messages were put on message_queue
    attempted,          \* how many messages had their send to all chats made
    stop_call,          \* whether stop() of the notifier was called, and puts at its first call
    shutdown_pc,        \* where a call of send_shutdown_message stands
    utc_offset,         \* the offset of the local time of the process from UTC, in seconds
    dex_loop_pc,        \* where DexscannerService.start_monitoring stands
    scan_rounds,        \* how many rounds of start_monitoring have run
    last_scan,          \* the fetch of the last _get_latest_pairs and the pairs it returned
    returned_count      \* per pair address: how often _get_latest_pairs has returned it

analyzer_vars == <<now, ticks, _analysis_cache, tasks, ev, last_success>>

pipeline_vars == <<tokens_collection, message_queue, notifier_is_running, enqueued, last_sent>>

listener_vars == <<is_running, reconnect_attempts, websocket, listener_pc, waits, fails>>

probe_vars == <<probe, probed, is_token>>

chain_vars == <<listener_vars, probe_vars>>

poller_vars == <<processed_messages, processed_tweets, processed_pairs, accepted, forwarded>>

dex_vars == <<loop_time, last_request_time, rate_limiter, dex_callers, request_starts>>

scheduler_vars ==
    <<services, scheduler_is_running, job_loops, job_counts, errors_count, health_status,
      critical_alert>>

monitor_vars == <<monitor_is_running, loop_pc, stop_requested>>

scanner_vars == <<scanner_web3, scanner_cache, scanner_stats, scanned>>

block_vars == <<inbox, arrived, handling, probes, handled, listener_stats>>

sender_vars == <<sending>>

task_vars == <<worker_tasks, puts, attempted, stop_call, shutdown_pc>>

scan_vars == <<utc_offset, dex_loop_pc, scan_rounds, last_scan, returned_count>>

service_vars ==
    <<poller_vars, dex_vars, scheduler_vars, monitor_vars, scanner_vars, block_vars,
      sender_vars, task_vars, scan_vars>>

core_vars == <<analyzer_vars, pipeline_vars, chain_vars>>

not_poller_vars ==
    <<core_vars, dex_vars, scheduler_vars, monitor_vars, scanner_vars, block_vars,
      sender_vars, task_vars, scan_vars>>

not_dex_vars ==
    <<core_vars, poller_vars, scheduler_vars, monitor_vars, scanner_vars, block_vars,
      sender_vars, task_vars, scan_vars>>

not_scheduler_vars ==
    <<core_vars, poller_vars, dex_vars, monitor_vars, scanner_vars, block_vars,
      sender_vars, task_vars, scan_vars>>

not_monitor_vars ==
    <<core_vars, poller_vars, dex_vars, scheduler_vars, scanner_vars, block_vars,
      sender_vars, task_vars, scan_vars>>

not_scanner_vars ==
    <<core_vars, poller_vars, dex_vars, scheduler_vars, monitor_vars, block_vars,
      sender_vars, task_vars, scan_vars>>

not_listener_vars ==
    <<analyzer_vars, pipeline_vars, probe_vars, poller_vars, dex_vars, scheduler_vars,
      monitor_vars, scanner_vars, sender_vars, task_vars, scan_vars>>

not_block_vars ==
    <<core_vars, poller_vars, dex_vars, scheduler_vars, monitor_vars, scanner_vars,
      sender_vars, task_vars, scan_vars>>

not_sender_vars ==
    <<poller_vars, dex_vars, scheduler_vars, monitor_vars, scanner_vars, block_vars,
      task_vars, scan_vars>>

not_task_vars ==
    <<analyzer_vars, chain_vars, poller_vars, dex_vars, scheduler_vars, monitor_vars,
      scanner_vars, block_vars, sender_vars, scan_vars>>

not_scan_vars ==
    <<pipeline_vars, chain_vars, dex_vars, scheduler_vars, monitor_vars, scanner_vars,
      block_vars, sender_vars, task_vars>>

vars == <<analyzer_vars, pipeline_vars, chain_vars, service_vars>>

(***************************************************************************)
(* Bounds of the model.                                                    *)
(***************************************************************************)
MaxTicks == 3
MaxTasks == 2
MaxQueue == 2
MaxAlerts == 2
MaxFails == 12
MaxMessages == 2
MaxCallers == 2
MaxRequests == 3
MaxLoopTime == 30
MaxLoops == 2
MaxRuns == 1
MaxErrors == 1
MaxScans == 2
MaxInbox == 2
MaxArrivals == 2
MaxWorkers == 2
MaxPuts == 2
MaxScanRounds == 3

(***************************************************************************)
(* Program constants.                                                      *)
(***************************************************************************)
CACHE_TTL_SECONDS == 300
MIN_NOTIFICATION_SCORE == 70
NOTIFICATION_COOLDOWN_MINUTES == 30
MAX_RECONNECT_ATTEMPTS == 10
WEBSOCKET_RECONNECT_DELAY == 5
DECIMALS_MAX == 18
MAX_CONCURRENT_ANALYSES == 5
MIN_LIQUIDITY == 10000
MAX_AGE_HOURS == 24
MIN_VOLUME == 1000
MIN_REQUEST_INTERVAL == 10
RATE_LIMITER_PERMITS == 5
CACHE_MAX_ENTRIES == 1000
SCORE_MAX == 100
CONFIDENCE_MAX == 100

(***************************************************************************)
(* Text.                                                                   *)
(***************************************************************************)
LowerChar(c) ==
    CASE c = "A" -> "a" [] c = "B" -> "b" [] c = "C" -> "c" [] c = "D" -> "d"
      [] c = "E" -> "e" [] c = "H" -> "h" [] c = "I" -> "i" [] c = "L" -> "l"
      [] c = "O" -> "o" [] c = "R" -> "r" [] c = "S" -> "s" [] c = "U" -> "u"
      [] c = "V" -> "v" [] c = "Y" -> "y"
      [] OTHER -> c

UpperChar(c) ==
    CASE c = "a" -> "A" [] c = "b" -> "B" [] c = "c" -> "C" [] c = "d" -> "D"
      [] c = "e" -> "E" [] c = "h" -> "H" [] c = "i" -> "I" [] c = "l" -> "L"
      [] c = "o" -> "O" [] c = "r" -> "R" [] c = "s" -> "S" [] c = "u" -> "U"
      [] c = "v" -> "V" [] c = "y" -> "Y"
      [] OTHER -> c

lower(s) == [i \in 1..Len(s) |-> LowerChar(s[i])]

upper(s) == [i \in 1..Len(s) |-> UpperChar(s[i])]

(***************************************************************************)
(* models.py                                                               *)
(***************************************************************************)
None == [score |-> -1, confidence |-> -1, recommendation |-> << >>]

PENDING == "pending"
PROCESSING == "processing"
COMPLETED == "completed"
FAILED == "failed"

BUY == <<"b", "u", "y">>
HOLD == <<"h", "o", "l", "d">>
AVOID == <<"a", "v", "o", "i", "d">>
RESEARCH == <<"r", "e", "s", "e", "a", "r", "c", "h">>

\* class Recommendation(str, Enum): the values Recommendation(value) accepts.
Recommendation == {BUY, HOLD, AVOID, RESEARCH}

\* TokenInfo.validate_contract_address returns v.lower().
validate_contract_address(v) == lower(v)

\* AIAnalysis(...): the Field constraints on score and confidence (ge, le) and on
\* the optional sub-scores; extras_ok says that the fields other than score,
\* confidence and recommendation pass theirs.  FALSE is pydantic's ValidationError.
AIAnalysisValid(score, confidence, extras_ok) ==
    /\ 0 <= score /\ score <= SCORE_MAX
    /\ 0 <= confidence /\ confidence <= CONFIDENCE_MAX
    /\ extras_ok

\* TokenAnalysis.ai_score
ai_score(ai) == IF ai # None THEN ai.score ELSE -1

(***************************************************************************)
(* The inputs: contract addresses, and what the scoring API answers.       *)
(***************************************************************************)
RawAddrs == { <<"0", "x", "A", "b">>, <<"0", "x", "a", "b">>, <<"0", "x", "c", "d">> }

Keys == { lower(a) : a \in RawAddrs }

RequiredFields == {"score", "reasoning", "recommendation", "confidence"}

\* The JSON object of a response: the fields it has, and the type and value of
\* score, confidence and recommendation.
Data(has, st, s, ct, c, rt, r, x) ==
    [has |-> has, score_t |-> st, score |-> s, conf_t |-> ct, conf |-> c,
     rec_t |-> rt, rec |-> r, extras_ok |-> x]

GoodData == Data(RequiredFields, "num", 82, "num", 85, "str", <<"B", "U", "Y">>, TRUE)

\* What client.chat.completions.create does: raise, or answer with a content.
Answer(api, content, data) == [api |-> api, content |-> content, data |-> data]

ApiFailures ==
    { Answer(k, "none", GoodData) : k \in {"timeout", "rate_limit", "api_error", "exception"} }

ValidAnswers ==
    { Answer("ok", "json", d) : d \in
        { GoodData,
          Data(RequiredFields, "num", 0, "num", 0, "str", <<"a", "v", "o", "i", "d">>, TRUE),
          Data(RequiredFields, "num", 100, "num", 100, "str", <<"H", "o", "l", "d">>, TRUE),
          Data(RequiredFields, "num", 69, "num", 85, "str", <<"R", "E", "S", "E", "A", "R", "C", "H">>, TRUE) } }

UnknownRecommendationAnswers ==
    { Answer("ok", "json", d) : d \in
        { Data(RequiredFields, "num", 82, "num", 85, "str", <<"S", "E", "L", "L">>, TRUE),
          Data(RequiredFields, "num", 69, "num", 85, "str", << >>, TRUE) } }

MalformedAnswers ==
    { Answer("ok", "not_json", GoodData), Answer("ok", "none", GoodData) }
    \cup { Answer("ok", "json", [GoodData EXCEPT !.has = RequiredFields \ {f}]) :
             f \in RequiredFields }
    \cup { Answer("ok", "json", [GoodData EXCEPT !.score = s]) : s \in {-1, SCORE_MAX + 1} }
    \cup { Answer("ok", "json", [GoodData EXCEPT !.conf = c]) : c \in {-1, CONFIDENCE_MAX + 1} }
    \cup { Answer("ok", "json", [GoodData EXCEPT !.score_t = t]) : t \in {"str", "null"} }
    \cup { Answer("ok", "json", [GoodData EXCEPT !.conf_t = t]) : t \in {"str", "null"} }
    \cup { Answer("ok", "json", [GoodData EXCEPT !.rec_t = "null"]),
           Answer("ok", "json", [GoodData EXCEPT !.extras_ok = FALSE]) }

Answers == ApiFailures \cup ValidAnswers \cup UnknownRecommendationAnswers \cup MalformedAnswers

\* The answers of the runs in which time passes: two that score, two that fail.
FewAnswers ==
    { Answer("ok", "json", GoodData),
      Answer("ok", "json",
             Data(RequiredFields, "num", 0, "num", 0, "str", <<"a", "v", "o", "i", "d">>, TRUE)),
      Answer("timeout", "none", GoodData),
      Answer("ok", "not_json", GoodData) }

(***************************************************************************)
(* gpt_analyzer.py                                                         *)
(***************************************************************************)
\* _call_openai_api: the dict of the response, or None ("none") on a timeout, a
\* rate limit, an API error or any other exception.
_call_openai_api(answer) ==
    IF answer.api = "ok" THEN "ai_result" ELSE "none"

\* Mutant of _parse_ai_response: an out-of-range score or confidence is clamped
\* into its range instead of being rejected.
_parse_ai_response_clamping(answer) ==
    LET data == answer.data
        clamp(x, hi) == IF x < 0 THEN 0 ELSE IF x > hi THEN hi ELSE x
    IN
    IF answer.content # "json" THEN None
    ELSE IF \E f \in RequiredFields : f \notin data.has THEN None
    ELSE IF data.score_t # "num" \/ data.conf_t # "num" \/ data.rec_t # "str" THEN None
    ELSE IF ~data.extras_ok THEN None
    ELSE [score |-> clamp(data.score, SCORE_MAX),
          confidence |-> clamp(data.conf, CONFIDENCE_MAX),
          recommendation |-> IF lower(upper(data.rec)) \in Recommendation
                             THEN lower(upper(data.rec)) ELSE RESEARCH]

\* Mutant of _parse_ai_response: the score and the confidence are taken as
\* they come, without the range checks.
_parse_ai_response_unchecked(answer) ==
    LET data == answer.data IN
    IF answer.content # "json" THEN None
    ELSE IF \E f \in RequiredFields : f \notin data.has THEN None
    ELSE IF data.score_t # "num" \/ data.conf_t # "num" \/ data.rec_t # "str" THEN None
    ELSE IF ~data.extras_ok THEN None
    ELSE [score |-> data.score, confidence |-> data.conf,
          recommendation |-> IF lower(upper(data.rec)) \in Recommendation
                             THEN lower(upper(data.rec)) ELSE RESEARCH]

\* Mutant of _parse_ai_response: an unrecognized recommendation is rejected.
_parse_ai_response_strict(answer) ==
    LET data == answer.data IN
    IF answer.content # "json" THEN None
    ELSE IF \E f \in RequiredFields : f \notin data.has THEN None
    ELSE IF data.score_t # "num" \/ data.conf_t # "num" \/ data.rec_t # "str" THEN None
    ELSE IF ~AIAnalysisValid(data.score, data.conf, data.extras_ok) THEN None
    ELSE IF lower(upper(data.rec)) \notin Recommendation THEN None
    ELSE [score |-> data.score, confidence |-> data.conf,
          recommendation |-> lower(upper(data.rec))]

\* _parse_ai_response: the AIAnalysis, or None when json.loads, a missing
\* field, float(), a range check, .upper() or AIAnalysis(...) fails.
_parse_ai_response(answer) ==
    LET data == answer.data IN
    IF answer.content # "json" THEN None
    ELSE IF \E f \in RequiredFields : f \notin data.has THEN None
    ELSE IF data.score_t # "num" THEN None
    ELSE IF ~(0 <= data.score /\ data.score <= SCORE_MAX) THEN None
    ELSE IF data.conf_t # "num" THEN None
    ELSE IF ~(0 <= data.conf /\ data.conf <= CONFIDENCE_MAX) THEN None
    ELSE IF data.rec_t # "str" THEN None
    ELSE LET recommendation_str == upper(data.rec)
             recommendation == IF lower(recommendation_str) \in Recommendation
                               THEN lower(recommendation_str)
                               ELSE RESEARCH
         IN  IF AIAnalysisValid(data.score, data.conf, data.extras_ok)
             THEN [score |-> data.score, confidence |-> data.conf,
                   recommendation |-> recommendation]
             ELSE None

\* Mutant of _get_cached_analysis: the validity test is inverted.
_get_cached_analysis_inverted(cache, contract_address, t) ==
    LET cache_key == lower(contract_address) IN
    IF cache_key \in DOMAIN cache
    THEN IF t - cache[cache_key].timestamp >= CACHE_TTL_SECONDS
         THEN <<cache[cache_key].analysis, cache>>
         ELSE <<None, [k \in DOMAIN cache \ {cache_key} |-> cache[k]]>>
    ELSE <<None, cache>>

\* Mutant of _get_cached_analysis: an expired entry is left in the cache.
_get_cached_analysis_keeping(cache, contract_address, t) ==
    LET cache_key == lower(contract_address) IN
    IF cache_key \in DOMAIN cache /\ t - cache[cache_key].timestamp < CACHE_TTL_SECONDS
    THEN <<cache[cache_key].analysis, cache>>
    ELSE <<None, cache>>

\* _get_cached_analysis: <<the cached analysis or None, the cache afterwards>>.
\* An entry as old as the TTL is deleted on access.
_get_cached_analysis(cache, contract_address, t) ==
    LET cache_key == lower(contract_address) IN
    IF cache_key \in DOMAIN cache
    THEN IF t - cache[cache_key].timestamp < CACHE_TTL_SECONDS
         THEN <<cache[cache_key].analysis, cache>>
         ELSE <<None, [k \in DOMAIN cache \ {cache_key} |-> cache[k]]>>
    ELSE <<None, cache>>

\* Mutant of _cleanup_cache: the cache is emptied.
_cleanup_cache_all(cache, t) == << >>

\* _cleanup_cache: the cache without its expired entries.
_cleanup_cache(cache, t) ==
    LET expired_keys == { k \in DOMAIN cache : t - cache[k].timestamp >= CACHE_TTL_SECONDS }
    IN  [k \in DOMAIN cache \ expired_keys |-> cache[k]]

\* _cache_analysis: the cache after storing the analysis under the lower-cased
\* address, cleaned when it holds more than 1000 entries.
_cache_analysis(cache, contract_address, analysis, t) ==
    LET cache_key == lower(contract_address)
        stored == [k \in DOMAIN cache \cup {cache_key} |->
                     IF k = cache_key THEN [analysis |-> analysis, timestamp |-> t]
                     ELSE cache[k]]
    IN  IF Cardinality(DOMAIN stored) > CACHE_MAX_ENTRIES
        THEN _cleanup_cache(stored, t)
        ELSE stored

\* Mutant of cache_after_scoring: the outcome is cached whether or not the
\* scoring produced an analysis.
cache_after_scoring_always(cache, contract_address, ai_analysis, t) ==
    _cache_analysis(cache, contract_address, ai_analysis, t)

\* analyze_token, "if ai_result: ... if ai_analysis: ... self._cache_analysis(...)":
\* the cache after the scoring; only an analysis that was parsed is stored.
cache_after_scoring(cache, contract_address, ai_analysis, t) ==
    IF ai_analysis # None
    THEN _cache_analysis(cache, contract_address, ai_analysis, t)
    ELSE cache

(***************************************************************************)
(* Coroutines.  A slot of tasks holds one coroutine that is suspended at   *)
(* an await: src says who started it, pc which await it is at.             *)
(***************************************************************************)
Slots == 1..MaxTasks

Idle == [src |-> "idle", address |-> << >>, pc |-> "idle", status |-> "none", ai |-> None]

Task(src, address, pc, status, ai) ==
    [src |-> src, address |-> address, pc |-> pc, status |-> status, ai |-> ai]

FreeSlot(i) == tasks[i] = Idle /\ \A j \in DOMAIN tasks : j < i => tasks[j] # Idle

NoAnswer == Answer("none", "none", GoodData)

NoEvent ==
    [op |-> "none", phase |-> "none", raw |-> << >>, address |-> << >>, age |-> -1,
     answer |-> NoAnswer, status |-> "none", ai |-> None, alert |-> "none"]

\* What a step of analyze_token leaves in ev: the phase it ended in ("cached":
\* returned at the cache hit; "await": suspended in the API call; "return":
\* returned after the API call), the age of the cache entry it found (-1: none),
\* and what it returned.
Event(phase, raw, address, age, answer, status, ai) ==
    [op |-> "analyze_token", phase |-> phase, raw |-> raw, address |-> address,
     age |-> age, answer |-> answer, status |-> status, ai |-> ai, alert |-> "none"]

EntryAge(cache, address, t) ==
    IF lower(address) \in DOMAIN cache THEN t - cache[lower(address)].timestamp ELSE -1

(***************************************************************************)
(* analyze_token, up to its first await: the cache lookup, and either the  *)
(* return of the cached analysis or the call of the scoring API.           *)
(***************************************************************************)
analyze_token_enter(i, src, raw) ==
    LET contract_address == validate_contract_address(raw)
        looked == _get_cached_analysis(_analysis_cache, contract_address, now)
        cached_result == looked[1]
        age == EntryAge(_analysis_cache, contract_address, now)
    IN  /\ _analysis_cache' = looked[2]
        /\ IF cached_result # None
           THEN /\ ev' = Event("cached", raw, contract_address, age, NoAnswer,
                               COMPLETED, cached_result)
                /\ tasks' = IF src = "direct" THEN [tasks EXCEPT ![i] = Idle]
                            ELSE [tasks EXCEPT ![i] =
                                    Task(src, contract_address, "save", COMPLETED, cached_result)]
           ELSE /\ ev' = Event("await", raw, contract_address, age, NoAnswer,
                               PROCESSING, None)
                /\ tasks' = [tasks EXCEPT ![i] =
                               Task(src, contract_address, "api", PROCESSING, None)]
        /\ UNCHANGED last_success

\* Mutant of status_after_scoring: the two else branches that set FAILED are
\* missing, and the analysis keeps the status it got on entry.
status_after_scoring_unset(ai_analysis) ==
    IF ai_analysis # None THEN COMPLETED ELSE PROCESSING

\* The status analyze_token returns after the call of the scoring API:
\* COMPLETED with the parsed analysis, FAILED when the call gave no result or
\* the result did not parse.
status_after_scoring(ai_analysis) ==
    IF ai_analysis # None THEN COMPLETED ELSE FAILED

(***************************************************************************)
(* analyze_token, from the answer of the scoring API to its return.        *)
(***************************************************************************)
analyze_token_resume(i, answer) ==
    LET t == tasks[i]
        ai_result == _call_openai_api(answer)
        ai_analysis == IF ai_result # "none" THEN _parse_ai_response(answer) ELSE None
        status == status_after_scoring(ai_analysis)
    IN  /\ t.pc = "api"
        /\ _analysis_cache' = cache_after_scoring(_analysis_cache, t.address, ai_analysis, now)
        /\ last_success' =
              IF ai_analysis # None
              THEN [last_success EXCEPT ![lower(t.address)] = [at |-> now, ai |-> ai_analysis]]
              ELSE last_success
        /\ ev' = Event("return", t.address, t.address, -1, answer,
                       status, ai_analysis)
        /\ tasks' = IF t.src = "direct" THEN [tasks EXCEPT ![i] = Idle]
                    ELSE [tasks EXCEPT ![i] = Task(t.src, t.address, "save", status, ai_analysis)]

(***************************************************************************)
(* Actions of the analyzer.                                                *)
(***************************************************************************)
\* A caller awaits analyze_token(TokenInfo(contract_address=raw, ...)).
AnalyzeToken(raw) ==
    /\ \E i \in Slots : FreeSlot(i) /\ analyze_token_enter(i, "direct", raw)
    /\ UNCHANGED <<now, ticks>>
    /\ UNCHANGED <<pipeline_vars, chain_vars, service_vars>>

\* The scoring API answers the call of the coroutine in slot i.
ApiAnswer(i, answer) ==
    /\ analyze_token_resume(i, answer)
    /\ UNCHANGED <<now, ticks>>
    /\ UNCHANGED <<pipeline_vars, chain_vars, service_vars>>

\* Time passes.
Tick(d) ==
    /\ ticks < MaxTicks
    /\ now' = now + d
    /\ ticks' = ticks + 1
    /\ UNCHANGED <<_analysis_cache, tasks, ev, last_success>>
    /\ UNCHANGED <<pipeline_vars, chain_vars, service_vars>>

TickSteps == {1, CACHE_TTL_SECONDS - 1}

NeverScored == [at |-> -1, ai |-> None]

InitAnalyzer ==
    /\ now = 0
    /\ ticks = 0
    /\ _analysis_cache = << >>
    /\ tasks = [i \in Slots |-> Idle]
    /\ ev = NoEvent
    /\ last_success = [k \in Keys |-> NeverScored]

(***************************************************************************)
(* db.py                                                                   *)
(***************************************************************************)
\* token_exists: count_documents(contract_address.lower()) > 0, and False when
\* the query raises.
token_exists(collection, contract_address, db_ok) ==
    db_ok /\ lower(contract_address) \in collection

\* save_token_analysis: the upsert under token_info.contract_address; a failed
\* write is logged and leaves the collection as it was.
save_token_analysis(collection, contract_address, db_ok) ==
    IF db_ok THEN collection \cup {contract_address} ELSE collection

(***************************************************************************)
(* telegram_notifier.py                                                    *)
(***************************************************************************)
\* The methods class TelegramNotifierService defines.
TelegramNotifierMethods ==
    {"start", "stop", "notify_new_token", "notify_alert", "notify_system_status",
     "_format_token_notification", "_format_alert_message", "_format_system_status",
     "_queue_message", "_message_worker", "_send_message_to_all_chats", "_send_message",
     "_test_connection", "send_startup_message", "send_shutdown_message"}

\* TelegramNotifierService.chat_ids
ChatIds == {"chat_a", "chat_b"}

TokenAlert(address) == [kind |-> "token", address |-> address, priority |-> "normal"]

NoMessage == [kind |-> "none", address |-> << >>, priority |-> "none"]

\* _queue_message: message_queue.put of the message with its priority.
_queue_message(queue, message) == Append(queue, message)

\* notify_new_token: nothing below MIN_NOTIFICATION_SCORE; otherwise the message
\* is formatted and queued.  An exception of the formatting is logged and
\* nothing is queued.
notify_new_token(queue, address, overall_score, formats) ==
    IF overall_score < MIN_NOTIFICATION_SCORE THEN queue
    ELSE IF ~formats THEN queue
    ELSE _queue_message(queue, TokenAlert(address))

\* A caller awaits notify_new_token(token_info, analysis_result).
NotifyNewToken(raw, overall_score, formats) ==
    LET address == validate_contract_address(raw)
        queue == notify_new_token(message_queue, address, overall_score, formats)
    IN  /\ Len(message_queue) < MaxQueue
        /\ Len(enqueued) < MaxAlerts
        /\ message_queue' = queue
        /\ enqueued' = IF queue # message_queue
                       THEN Append(enqueued, [address |-> address, at |-> now])
                       ELSE enqueued
        /\ UNCHANGED <<tokens_collection, notifier_is_running, last_sent>>
        /\ UNCHANGED <<analyzer_vars, chain_vars, service_vars>>

\* start: the worker is started when _test_connection succeeds.
NotifierStart(connected) ==
    /\ ~notifier_is_running
    /\ notifier_is_running' = connected
    /\ UNCHANGED <<tokens_collection, message_queue, enqueued, last_sent>>
    /\ UNCHANGED <<analyzer_vars, chain_vars, service_vars>>

\* notify_alert: the alert is queued with priority "high" when it is critical
\* and "normal" otherwise.
AlertPriorities == {"critical", "warning", "normal"}

AlertMessage(priority) ==
    [kind |-> "alert", address |-> << >>,
     priority |-> IF priority = "critical" THEN "high" ELSE "normal"]

NotifyAlert(priority) ==
    /\ Len(message_queue) < MaxQueue
    /\ message_queue' = _queue_message(message_queue, AlertMessage(priority))
    /\ UNCHANGED <<tokens_collection, notifier_is_running, enqueued, last_sent>>
    /\ UNCHANGED <<analyzer_vars, chain_vars, service_vars>>

\* notify_system_status: the status is queued with priority "low".
StatusMessage == [kind |-> "status", address |-> << >>, priority |-> "low"]

NotifySystemStatus ==
    /\ Len(message_queue) < MaxQueue
    /\ message_queue' = _queue_message(message_queue, StatusMessage)
    /\ UNCHANGED <<tokens_collection, notifier_is_running, enqueued, last_sent>>
    /\ UNCHANGED <<analyzer_vars, chain_vars, service_vars>>

\* TelegramNotifierService.chat_ids, in their order.
chat_ids == <<"chat_a", "chat_b">>

\* How the request of _send_message ends: the API says ok, the API says not
\* ok, raise_for_status raises HTTPStatusError, anything else raises.
SendOutcomes == {"ok", "not_ok", "HTTPStatusError", "Exception"}

\* _send_message: True when the API says ok; every exception is caught and
\* gives False.
_send_message(outcome) == outcome = "ok"

\* _send_message_to_all_chats: one _send_message per entry of chat_ids, all
\* gathered with return_exceptions=True.  The result says how many sends were
\* attempted to each chat and what they returned.
_send_message_to_all_chats_until_failure(outcomes) ==
    [attempts |-> [c \in ChatIds |->
                     Cardinality({k \in DOMAIN chat_ids :
                        /\ chat_ids[k] = c
                        /\ \A j \in 1..(k - 1) : _send_message(outcomes[chat_ids[j]])})],
     results |-> [c \in ChatIds |-> _send_message(outcomes[c])]]

_send_message_to_all_chats(outcomes) ==
    [attempts |-> [c \in ChatIds |-> Cardinality({k \in DOMAIN chat_ids : chat_ids[k] = c})],
     results |-> [c \in ChatIds |-> _send_message(outcomes[c])]]

NotSent == [attempts |-> [c \in ChatIds |-> 0], results |-> [c \in ChatIds |-> FALSE]]

\* _message_worker: one round of the loop.  The message at the head of the
\* queue is taken, _send_message_to_all_chats sends it, task_done is called.
MessageWorker(outcomes) ==
    /\ notifier_is_running
    /\ message_queue # << >>
    /\ last_sent' = [message |-> Head(message_queue),
                     sends |-> _send_message_to_all_chats(outcomes)]
    /\ message_queue' = Tail(message_queue)
    /\ UNCHANGED <<tokens_collection, notifier_is_running, enqueued>>
    /\ UNCHANGED <<analyzer_vars, chain_vars, service_vars>>

(***************************************************************************)
(* The analysis of a candidate: _analyze_token_async of the chain listener *)
(* and analyze_token_background of the manual trigger.  Both await         *)
(* scan_token, analyze_token and save_token_analysis, then compare the     *)
(* score and call the notifier.                                            *)
(***************************************************************************)
PipelineEvent(phase, address, status, ai, alert) ==
    [op |-> "pipeline", phase |-> phase, raw |-> address, address |-> address,
     age |-> -1, answer |-> NoAnswer, status |-> status, ai |-> ai, alert |-> alert]

\* _handle_new_erc20_token: a candidate of the chain listener.  It is dropped
\* when token_exists says so; otherwise create_task(_analyze_token_async).
HandleNewErc20Token(raw, db_ok) ==
    /\ IF token_exists(tokens_collection, raw, db_ok)
       THEN /\ ev' = PipelineEvent("dropped", validate_contract_address(raw), "none", None, "none")
            /\ UNCHANGED tasks
       ELSE \E i \in DOMAIN tasks :
              /\ FreeSlot(i)
              /\ tasks' = [tasks EXCEPT ![i] =
                             Task("ws", validate_contract_address(raw), "scan", "none", None)]
              /\ ev' = PipelineEvent("started", validate_contract_address(raw), "none", None, "none")
    /\ UNCHANGED <<now, ticks, _analysis_cache, last_success>>
    /\ UNCHANGED <<pipeline_vars, chain_vars, service_vars>>

\* analyze_token_manual: POST /analyze/token adds analyze_token_background as a
\* background task.
AnalyzeTokenManual(raw) ==
    /\ \E i \in DOMAIN tasks :
         /\ FreeSlot(i)
         /\ tasks' = [tasks EXCEPT ![i] =
                        Task("manual", validate_contract_address(raw), "scan", "none", None)]
    /\ ev' = PipelineEvent("started", validate_contract_address(raw), "none", None, "none")
    /\ UNCHANGED <<now, ticks, _analysis_cache, last_success>>
    /\ UNCHANGED <<pipeline_vars, chain_vars, service_vars>>

\* scan_token returns: None ends the task, a TokenInfo goes to analyze_token.
ScanReturn(i, found) ==
    /\ tasks[i].pc = "scan"
    /\ IF found
       THEN analyze_token_enter(i, tasks[i].src, tasks[i].address)
       ELSE /\ tasks' = [tasks EXCEPT ![i] = Idle]
            /\ ev' = PipelineEvent("done", tasks[i].address, "none", None, "none")
            /\ UNCHANGED <<_analysis_cache, last_success>>
    /\ UNCHANGED <<now, ticks>>
    /\ UNCHANGED <<pipeline_vars, chain_vars, service_vars>>

alert_outcome_any_score(ai) ==
    IF ai = None THEN "TypeError"
    ELSE IF "send_alert" \in TelegramNotifierMethods THEN "send_alert"
         ELSE "AttributeError"

\* "if analysis.ai_score >= settings.MIN_NOTIFICATION_SCORE: await
\* self.notifier.send_alert(analysis)": comparing None raises TypeError, and
\* the attribute send_alert is looked up on the TelegramNotifierService.  Either
\* exception is caught and logged by the task.
alert_outcome(ai) ==
    IF ai = None THEN "TypeError"
    ELSE IF ai_score(ai) >= MIN_NOTIFICATION_SCORE
         THEN IF "send_alert" \in TelegramNotifierMethods THEN "send_alert"
              ELSE "AttributeError"
         ELSE "below"

\* save_token_analysis returns; the score is compared, the notifier is called,
\* and the task ends.
SaveReturn(i, db_ok) ==
    /\ tasks[i].pc = "save"
    /\ tokens_collection' = save_token_analysis(tokens_collection, tasks[i].address, db_ok)
    /\ ev' = PipelineEvent("done", tasks[i].address, tasks[i].status, tasks[i].ai,
                           alert_outcome(tasks[i].ai))
    /\ tasks' = [tasks EXCEPT ![i] = Idle]
    /\ UNCHANGED <<now, ticks, _analysis_cache, last_success>>
    /\ UNCHANGED <<message_queue, notifier_is_running, enqueued, last_sent>>
    /\ UNCHANGED <<chain_vars, service_vars>>

InitPipeline ==
    /\ tokens_collection = {}
    /\ message_queue = << >>
    /\ notifier_is_running = FALSE
    /\ enqueued = << >>
    /\ last_sent = [message |-> NoMessage, sends |-> NotSent]

(***************************************************************************)
(* websocket_listener.py: start, stop and _connect_and_listen              *)
(***************************************************************************)
\* The exceptions _connect_and_listen catches and does not raise again.
SwallowedErrors == {"ConnectionClosed", "InvalidStatusCode"}

\* What websockets.connect raises when no connection is opened.
ConnectErrors == {"InvalidStatusCode", "OSError", "TimeoutError"}

\* What ends an open connection: the iteration over the messages ends
\* ("return", the connection was closed in order), or a send or a receive raises.
StreamEnds == {"return", "ConnectionClosed", "OSError"}

\* How _connect_and_listen ends, as start() sees it.
_connect_and_listen(end) ==
    IF end = "return" \/ end \in SwallowedErrors THEN "return" ELSE "raise"

\* "while self.is_running" of start().
while_is_running(running) == IF running THEN "connecting" ELSE "stopped"

\* Mutant of start_after: the limit is tested with <= instead of <.
start_after_off_by_one(end) ==
    /\ fails' = fails + 1
    /\ IF _connect_and_listen(end) = "return"
       THEN /\ listener_pc' = while_is_running(is_running)
            /\ UNCHANGED <<reconnect_attempts, waits>>
       ELSE IF reconnect_attempts <= MAX_RECONNECT_ATTEMPTS
            THEN /\ reconnect_attempts' = reconnect_attempts + 1
                 /\ waits' = Append(waits, WEBSOCKET_RECONNECT_DELAY * (reconnect_attempts + 1))
                 /\ listener_pc' = "backoff"
            ELSE /\ listener_pc' = "terminated"
                 /\ UNCHANGED <<reconnect_attempts, waits>>

\* start(), from the end of _connect_and_listen to its next await: a normal
\* return goes back to the loop test; an exception is counted and slept on
\* while reconnect_attempts < max_reconnect_attempts, and breaks the loop
\* otherwise.
start_after(end) ==
    /\ fails' = fails + 1
    /\ IF _connect_and_listen(end) = "return"
       THEN /\ listener_pc' = while_is_running(is_running)
            /\ UNCHANGED <<reconnect_attempts, waits>>
       ELSE IF reconnect_attempts < MAX_RECONNECT_ATTEMPTS
            THEN /\ reconnect_attempts' = reconnect_attempts + 1
                 /\ waits' = Append(waits, WEBSOCKET_RECONNECT_DELAY * (reconnect_attempts + 1))
                 /\ listener_pc' = "backoff"
            ELSE /\ listener_pc' = "terminated"
                 /\ UNCHANGED <<reconnect_attempts, waits>>

\* start(): is_running is set and the loop is entered.
Start ==
    /\ listener_pc = "idle"
    /\ is_running' = TRUE
    /\ listener_pc' = "connecting"
    /\ UNCHANGED <<reconnect_attempts, websocket, waits, fails>>
    /\ UNCHANGED <<analyzer_vars, pipeline_vars, probe_vars, service_vars>>

\* websockets.connect opens the connection: self.websocket is set and
\* reconnect_attempts is reset, then the subscription is sent.
ConnectOk ==
    /\ listener_pc = "connecting"
    /\ websocket' = "open"
    /\ reconnect_attempts' = 0
    /\ listener_pc' = "subscribing"
    /\ waits' = << >>
    /\ fails' = 0
    /\ UNCHANGED is_running
    /\ UNCHANGED <<analyzer_vars, pipeline_vars, probe_vars, service_vars>>

\* websockets.connect raises.
ConnectFail(error) ==
    /\ listener_pc = "connecting"
    /\ fails < MaxFails
    /\ start_after(error)
    /\ UNCHANGED <<is_running, websocket>>
    /\ UNCHANGED <<analyzer_vars, pipeline_vars, probe_vars, service_vars>>

\* _subscribe_to_new_blocks has sent eth_subscribe; the messages are awaited.
SubscribeOk ==
    /\ listener_pc = "subscribing"
    /\ listener_pc' = "listening"
    /\ UNCHANGED <<is_running, reconnect_attempts, websocket, waits, fails>>
    /\ UNCHANGED <<analyzer_vars, pipeline_vars, probe_vars, service_vars>>

\* The connection ends while the subscription is sent or while the messages
\* are awaited; leaving "async with" closes it.
StreamEnd(end) ==
    /\ listener_pc \in {"subscribing", "listening"}
    /\ listener_pc = "subscribing" => end # "return"
    /\ fails < MaxFails
    /\ websocket' = "closed"
    /\ start_after(end)
    /\ UNCHANGED is_running
    /\ UNCHANGED <<analyzer_vars, pipeline_vars, probe_vars, service_vars>>

\* asyncio.sleep(wait_time) of start() is over.
BackoffDone ==
    /\ listener_pc = "backoff"
    /\ listener_pc' = while_is_running(is_running)
    /\ UNCHANGED <<is_running, reconnect_attempts, websocket, waits, fails>>
    /\ UNCHANGED <<analyzer_vars, pipeline_vars, probe_vars, service_vars>>

\* stop(): is_running is cleared and the websocket, if there is one, is closed.
Stop ==
    /\ is_running
    /\ is_running' = FALSE
    /\ websocket' = IF websocket # "none" THEN "closed" ELSE websocket
    /\ UNCHANGED <<reconnect_attempts, listener_pc, waits, fails>>
    /\ UNCHANGED <<analyzer_vars, pipeline_vars, probe_vars, service_vars>>

InitListener ==
    /\ is_running = FALSE
    /\ reconnect_attempts = 0
    /\ websocket = "none"
    /\ listener_pc = "idle"
    /\ waits = << >>
    /\ fails = 0

(***************************************************************************)
(* websocket_listener.py: _is_erc20_token                                  *)
(***************************************************************************)
\* An integer m * 10^e; Python's integers have no width.
BigInt(m, e) == [m |-> m, e |-> e]

\* One call of a contract function: how it ends and, when it returns, the type
\* of the value and the value (a text or a number).
Call(kind, type, text, number) ==
    [kind |-> kind, type |-> type, text |-> text, number |-> number]

CallErrors == {"ContractLogicError", "BadFunctionCallOutput", "ConnectionError"}

isinstance(value, type) == value.type = type

\* total_supply > 0
GreaterThanZero(n) == n.m > 0

Foo == <<"F", "o", "o">>
FOO == <<"F", "O", "O">>

NameCalls ==
    {Call("ok", "str", t, 0) : t \in {Foo, << >>}}
    \cup {Call("ok", "bytes", Foo, 0)}
    \cup {Call(e, "none", << >>, 0) : e \in CallErrors}

SymbolCalls ==
    {Call("ok", "str", t, 0) : t \in {FOO, << >>}}
    \cup {Call("ok", "bytes", FOO, 0)}
    \cup {Call(e, "none", << >>, 0) : e \in CallErrors}

DecimalsCalls ==
    {Call("ok", "int", << >>, d) : d \in {-1, 0, DECIMALS_MAX, DECIMALS_MAX + 1}}
    \cup {Call("ok", "str", <<"1", "8">>, 0)}
    \cup {Call(e, "none", << >>, 0) : e \in CallErrors}

TotalSupplyCalls ==
    {Call("ok", "int", << >>, n) : n \in {BigInt(1, 21), BigInt(1, 0), BigInt(0, 0), BigInt(-1, 0)}}
    \cup {Call("ok", "str", <<"1">>, BigInt(0, 0))}
    \cup {Call(e, "none", << >>, BigInt(0, 0)) : e \in CallErrors}

Probes ==
    [web3 : BOOLEAN, name : NameCalls, symbol : SymbolCalls,
     decimals : DecimalsCalls, total_supply : TotalSupplyCalls]

NoProbe ==
    [web3 |-> FALSE, name |-> Call("ConnectionError", "none", << >>, 0),
     symbol |-> Call("ConnectionError", "none", << >>, 0),
     decimals |-> Call("ConnectionError", "none", << >>, 0),
     total_supply |-> Call("ConnectionError", "none", << >>, BigInt(0, 0))]

\* _is_erc20_token: False without web3; the four calls in their order, the
\* first one that raises ends the probe with False (except ContractLogicError,
\* except Exception); then the checks on the four values.
_is_erc20_token_any_decimals(web3, name, symbol, decimals, total_supply) ==
    IF ~web3 THEN FALSE
    ELSE IF name.kind # "ok" THEN FALSE
    ELSE IF symbol.kind # "ok" THEN FALSE
    ELSE IF decimals.kind # "ok" THEN FALSE
    ELSE IF total_supply.kind # "ok" THEN FALSE
    ELSE /\ isinstance(name, "str") /\ Len(name.text) > 0
         /\ isinstance(symbol, "str") /\ Len(symbol.text) > 0
         /\ isinstance(decimals, "int") /\ 0 <= decimals.number
         /\ isinstance(total_supply, "int") /\ GreaterThanZero(total_supply.number)

_is_erc20_token(web3, name, symbol, decimals, total_supply) ==
    IF ~web3 THEN FALSE
    ELSE IF name.kind # "ok" THEN FALSE
    ELSE IF symbol.kind # "ok" THEN FALSE
    ELSE IF decimals.kind # "ok" THEN FALSE
    ELSE IF total_supply.kind # "ok" THEN FALSE
    ELSE /\ isinstance(name, "str") /\ Len(name.text) > 0
         /\ isinstance(symbol, "str") /\ Len(symbol.text) > 0
         /\ isinstance(decimals, "int") /\ 0 <= decimals.number /\ decimals.number <= DECIMALS_MAX
         /\ isinstance(total_supply, "int") /\ GreaterThanZero(total_supply.number)

\* The listener probes the contract a transaction has created.
IsErc20Token ==
    /\ ~probed
    /\ probed' = TRUE
    /\ is_token' = _is_erc20_token(probe.web3, probe.name, probe.symbol,
                                   probe.decimals, probe.total_supply)
    /\ UNCHANGED probe
    /\ UNCHANGED <<analyzer_vars, pipeline_vars, listener_vars, service_vars>>

InitProbe ==
    /\ probe = NoProbe
    /\ probed = FALSE
    /\ is_token = FALSE

(***************************************************************************)
(* telegram_scraper.py, twitter_monitor.py: from a message to a candidate  *)
(***************************************************************************)
\* The ids of the messages and of the tweets.
MessageIds == 1..MaxMessages

\* The text of a message or of a tweet: whether it is empty, whether it holds
\* one of the keywords, and the contract addresses written in it.
Text(kind, addresses) == [kind |-> kind, addresses |-> addresses]

Texts ==
    {Text("empty", {})}
    \cup {Text(k, as) : k \in {"plain", "keyword"}, as \in SUBSET RawAddrs}

\* _extract_contract_addresses: the addresses matched in the text, in lower
\* case, as a set.
_extract_contract_addresses(text) == {lower(a) : a \in text.addresses}

\* _trigger_token_analysis of TelegramScraperService and TwitterMonitorService:
\* it logs the address; the call that would start the analysis is a comment.
\* The candidates forwarded are the ones forwarded before.
_trigger_token_analysis(fwd, source, address) == fwd

\* _process_contract_address for every address found: the TokenInfo is built
\* and _trigger_token_analysis is awaited.
process_addresses(source, addresses) ==
    /\ accepted' = accepted \cup {<<source, a>> : a \in addresses}
    /\ forwarded' = IF addresses = {} THEN forwarded
                    ELSE UNION {_trigger_token_analysis(forwarded, source, a) : a \in addresses}

\* TelegramScraperService._process_message: a message of a channel that is not
\* monitored or a message seen before is skipped; one without text or without
\* keyword is dropped; the addresses of the others are processed.
ProcessMessage(monitored, id, text) ==
    /\ IF ~monitored \/ id \in processed_messages
       THEN UNCHANGED <<processed_messages, accepted, forwarded>>
       ELSE /\ processed_messages' = processed_messages \cup {id}
            /\ IF text.kind # "keyword"
               THEN UNCHANGED <<accepted, forwarded>>
               ELSE process_addresses("telegram", _extract_contract_addresses(text))
    /\ UNCHANGED <<processed_tweets, processed_pairs>>
    /\ UNCHANGED not_poller_vars

\* TwitterMonitorService._process_tweet, from the stream (_on_tweet) or from
\* the periodic search.
ProcessTweet(id, text) ==
    /\ IF id \in processed_tweets
       THEN UNCHANGED <<processed_tweets, accepted, forwarded>>
       ELSE /\ processed_tweets' = processed_tweets \cup {id}
            /\ IF text.kind # "keyword"
               THEN UNCHANGED <<accepted, forwarded>>
               ELSE process_addresses("twitter", _extract_contract_addresses(text))
    /\ UNCHANGED <<processed_messages, processed_pairs>>
    /\ UNCHANGED not_poller_vars

(***************************************************************************)
(* dexscanner.py: from the latest pairs to a candidate                     *)
(***************************************************************************)
NoTimestamp == -1
NoAge == -1

\* TokenInfo.age_hours: None without creation_timestamp.
age_hours(creation_timestamp, t) ==
    IF creation_timestamp = NoTimestamp THEN NoAge
    ELSE (t - creation_timestamp) \div 3600

\* A pair of the Dexscreener answer.  recent: pairCreatedAt is given and less
\* than an hour old.  The symbols are stable coins or not.
Pair(pairAddress, recent, base_stable, quote_stable, liquidity, volume, suspicious) ==
    [pairAddress |-> pairAddress, recent |-> recent,
     baseToken |-> [stable |-> base_stable, address |-> <<"0", "x", "A", "b">>],
     quoteToken |-> [stable |-> quote_stable, address |-> <<"0", "x", "c", "d">>],
     liquidity |-> liquidity, volume |-> volume, suspicious |-> suspicious]

PairAddresses == {"none", "pair1", "pair2"}

Pairs ==
    {Pair(pa, r, bs, qs, l, v, s) :
        pa \in PairAddresses, r \in BOOLEAN, bs \in BOOLEAN, qs \in BOOLEAN,
        l \in {MIN_LIQUIDITY - 1, MIN_LIQUIDITY}, v \in {MIN_VOLUME - 1, MIN_VOLUME},
        s \in BOOLEAN}

\* The best pair there is: recent, liquid, traded, not suspicious.
GoodPair == Pair("pair1", TRUE, FALSE, TRUE, MIN_LIQUIDITY, MIN_VOLUME, FALSE)

\* What the request of _get_latest_pairs answers: an error, or pairs.
PairResponses ==
    {[ok |-> FALSE, pairs |-> << >>], [ok |-> TRUE, pairs |-> << >>]}
    \cup {[ok |-> TRUE, pairs |-> <<p>>] : p \in Pairs}
    \cup {[ok |-> TRUE, pairs |-> <<GoodPair, q>>] :
            q \in {GoodPair, Pair("pair2", TRUE, TRUE, FALSE, MIN_LIQUIDITY, MIN_VOLUME, FALSE)}}

\* _get_latest_pairs: an error gives no pair; a pair is kept when it has an
\* address not in processed_pairs and is recent, and its address is added to
\* processed_pairs at once.  The result is <<recent_pairs, processed_pairs>>.
RECURSIVE _get_latest_pairs(_, _, _)
_get_latest_pairs(pairs, recent_pairs, processed) ==
    IF pairs = << >> THEN <<recent_pairs, processed>>
    ELSE LET pair == Head(pairs)
         IN  IF pair.pairAddress # "none" /\ pair.pairAddress \notin processed /\ pair.recent
             THEN _get_latest_pairs(Tail(pairs), Append(recent_pairs, pair),
                                    processed \cup {pair.pairAddress})
             ELSE _get_latest_pairs(Tail(pairs), recent_pairs, processed)

\* _process_new_pair: the token of the pair is the base token unless its
\* symbol is a stable coin, then the quote token unless it is one too.
token_of_pair(pair) ==
    IF ~pair.baseToken.stable THEN pair.baseToken.address
    ELSE IF ~pair.quoteToken.stable THEN pair.quoteToken.address
    ELSE << >>

\* _create_token_info_from_pair: the TokenInfo has no creation_timestamp (the
\* age_hours handed to the constructor is no field of the model).
_create_token_info_from_pair(pair, token_address) ==
    [contract_address |-> validate_contract_address(token_address),
     liquidity_usd |-> pair.liquidity, volume_24h_usd |-> pair.volume,
     creation_timestamp |-> NoTimestamp, suspicious |-> pair.suspicious]

\* _is_interesting_token: liquidity, age, volume, suspicion, in this order;
\* comparing an age of None raises TypeError, which is caught: False.
_is_interesting_token(token_info, t) ==
    IF token_info.liquidity_usd < MIN_LIQUIDITY THEN FALSE
    ELSE IF age_hours(token_info.creation_timestamp, t) = NoAge THEN FALSE
    ELSE IF age_hours(token_info.creation_timestamp, t) > MAX_AGE_HOURS THEN FALSE
    ELSE IF token_info.volume_24h_usd < MIN_VOLUME THEN FALSE
    ELSE ~token_info.suspicious

\* The pairs of recent_pairs whose token _process_new_pair judges interesting.
interesting_tokens(recent_pairs, t) ==
    {validate_contract_address(token_of_pair(recent_pairs[k])) :
        k \in {j \in 1..Len(recent_pairs) :
                 /\ token_of_pair(recent_pairs[j]) # << >>
                 /\ _is_interesting_token(
                        _create_token_info_from_pair(recent_pairs[j], token_of_pair(recent_pairs[j])), t)}}

\* DexscannerService._trigger_token_analysis: it logs the token; the
\* connection to the analysis is a TODO.
dex_trigger_token_analysis(fwd, address) == fwd

\* _scan_new_pairs: one round of start_monitoring.
ScanNewPairs(response) ==
    LET got == IF response.ok THEN _get_latest_pairs(response.pairs, << >>, processed_pairs)
               ELSE << << >>, processed_pairs >>
        tokens == interesting_tokens(got[1], now)
    IN  /\ processed_pairs' = got[2]
        /\ accepted' = accepted \cup {<<"dexscreener", a>> : a \in tokens}
        /\ forwarded' = IF tokens = {} THEN forwarded
                        ELSE UNION {dex_trigger_token_analysis(forwarded, a) : a \in tokens}
        /\ UNCHANGED <<processed_messages, processed_tweets>>
        /\ UNCHANGED not_poller_vars

InitPollers ==
    /\ processed_messages = {}
    /\ processed_tweets = {}
    /\ processed_pairs = {}
    /\ accepted = {}
    /\ forwarded = {}

(***************************************************************************)
(* dexscanner.py: the rate limit of the API calls                          *)
(***************************************************************************)
Callers == 1..MaxCallers

\* The three methods that call the API under rate_limiter.
DexMethods == {"_get_latest_pairs", "get_token_data", "get_pair_data"}

IdleCaller == [pc |-> "idle", method |-> "none", wake |-> 0]

\* The calls that have entered "async with self.rate_limiter".
InProgress == {c \in Callers : dex_callers[c].pc # "idle"}

\* _respect_rate_limit up to its await: the time to sleep, 0 for none.
sleep_time(current_time, last) ==
    IF current_time - last < MIN_REQUEST_INTERVAL
    THEN MIN_REQUEST_INTERVAL - (current_time - last)
    ELSE 0

\* The end of _respect_rate_limit and the start of the request:
\* last_request_time is set to the time read now, http_client.get is awaited.
start_request(c) ==
    /\ last_request_time' = loop_time
    /\ request_starts' = Append(request_starts, loop_time)

\* A caller enters one of the three methods: it takes a permit of
\* rate_limiter, reads the time in _respect_rate_limit, and either sleeps or
\* starts its request at once.
DexCall(c, method) ==
    /\ dex_callers[c].pc = "idle"
    /\ rate_limiter > 0
    /\ Len(request_starts) + Cardinality(InProgress) < MaxRequests
    /\ rate_limiter' = rate_limiter - 1
    /\ IF sleep_time(loop_time, last_request_time) > 0
       THEN /\ dex_callers' = [dex_callers EXCEPT ![c] =
                  [pc |-> "sleeping", method |-> method,
                   wake |-> loop_time + sleep_time(loop_time, last_request_time)]]
            /\ UNCHANGED <<last_request_time, request_starts>>
       ELSE /\ dex_callers' = [dex_callers EXCEPT ![c] =
                  [pc |-> "request", method |-> method, wake |-> 0]]
            /\ start_request(c)
    /\ UNCHANGED loop_time
    /\ UNCHANGED not_dex_vars

\* asyncio.sleep(sleep_time) of _respect_rate_limit is over.
DexWake(c) ==
    /\ dex_callers[c].pc = "sleeping"
    /\ loop_time >= dex_callers[c].wake
    /\ dex_callers' = [dex_callers EXCEPT ![c] =
           [pc |-> "request", method |-> dex_callers[c].method, wake |-> 0]]
    /\ start_request(c)
    /\ UNCHANGED <<loop_time, rate_limiter>>
    /\ UNCHANGED not_dex_vars

\* The request is answered or fails; the method returns and gives its permit back.
DexResponse(c) ==
    /\ dex_callers[c].pc = "request"
    /\ dex_callers' = [dex_callers EXCEPT ![c] = IdleCaller]
    /\ rate_limiter' = rate_limiter + 1
    /\ UNCHANGED <<loop_time, last_request_time, request_starts>>
    /\ UNCHANGED not_dex_vars

\* The clock of the event loop advances.
DexTick(d) ==
    /\ loop_time + d <= MaxLoopTime
    /\ loop_time' = loop_time + d
    /\ UNCHANGED <<last_request_time, rate_limiter, dex_callers, request_starts>>
    /\ UNCHANGED not_dex_vars

InitDex ==
    /\ loop_time = 0
    /\ last_request_time = 0
    /\ rate_limiter = RATE_LIMITER_PERMITS
    /\ dex_callers = [c \in Callers |-> IdleCaller]
    /\ request_starts = << >>

(***************************************************************************)
(* SchedulerService: three jobs, each in a loop of its own, and the health *)
(* check of the registered services.                                       *)
(***************************************************************************)
Jobs == {"cleanup", "analytics", "health_check"}

\* The names main.py registers and the scheduler reads: the database, the
\* chain listener, the notifier, and the services that have a health_check.
ServiceNames ==
    {"db", "eth_listener", "telegram_notifier", "gpt_analyzer", "telegram_scraper",
     "twitter_monitor"}

\* hasattr(service, 'health_check')
HasHealthCheck == {"db", "gpt_analyzer", "telegram_scraper", "twitter_monitor"}

\* The keys health_status['services'] can get.
HealthKeys == {"database", "ethereum_websocket"} \cup HasHealthCheck

\* What the calls of one health check answer: is_connected() gives a boolean,
\* an awaited health_check() a boolean or an exception.
HealthAnswers ==
    {a \in [HealthKeys -> {"True", "False", "Exception"}] :
        a["ethereum_websocket"] # "Exception"}

NoStatus == [none |-> TRUE]

\* The keys one health check fills in: 'database' with services.get('db'),
\* 'ethereum_websocket' with services.get('eth_listener'), then the name of
\* every registered service that has a health_check.
health_keys(svcs) ==
    (IF "db" \in svcs THEN {"database"} ELSE {})
        \cup (IF "eth_listener" \in svcs THEN {"ethereum_websocket"} ELSE {})
        \cup (svcs \cap HasHealthCheck)

\* health_status['services']: in the loop over the services an exception of
\* health_check() is recorded as False.
collect_statuses(svcs, answers) == [k \in health_keys(svcs) |-> answers[k] = "True"]

healthy_services(status) == Cardinality({k \in DOMAIN status : status[k]})

total_services(status) == Cardinality(DOMAIN status)

\* healthy_services < total_services * 0.5
under_half(status) == 2 * healthy_services(status) < total_services(status)

\* _send_critical_alert: nothing without a notifier; the call of
\* notifier.send_system_alert raises AttributeError when the notifier has no
\* such method, and the except logs it.
_send_critical_alert(svcs) ==
    IF "telegram_notifier" \notin svcs THEN "no_notifier"
    ELSE IF "send_system_alert" \in TelegramNotifierMethods THEN "sent"
    ELSE "AttributeError"

\* _perform_health_check: the await of db.health_check() for 'database' is
\* outside the inner try, so its exception ends the check and is raised again.
_perform_health_check(svcs, answers) ==
    IF "db" \in svcs /\ answers["database"] = "Exception"
    THEN [raised |-> TRUE, services |-> NoStatus, alert |-> "not_called"]
    ELSE LET status == collect_statuses(svcs, answers) IN
         [raised |-> FALSE,
          services |-> status,
          alert |-> IF under_half(status) THEN _send_critical_alert(svcs) ELSE "not_called"]

\* _perform_cleanup and _generate_analytics: return at once without a
\* database, raise again what a call of the database raises.
_perform_db_job(svcs, db_raises) ==
    IF "db" \notin svcs THEN "returned" ELSE IF db_raises THEN "raised" ELSE "done"

NoLoops == [sleeping |-> 0, recovering |-> 0]

Live(j) == job_loops[j].sleeping + job_loops[j].recovering

\* Where one round of a job's loop leaves its coroutine, after the sleep of
\* the interval: without is_running the job is skipped and the while ends;
\* an exception of the job is caught inside the while and followed by the
\* recovery sleep.
_run_job_task_unguarded(running, raised) ==
    IF ~running \/ raised THEN "exited" ELSE "sleeping"

_run_job_task(running, raised) ==
    IF ~running THEN "exited" ELSE IF raised THEN "recovering" ELSE "sleeping"

after_round(loops, pc) ==
    CASE pc = "sleeping" -> loops
      [] pc = "recovering" ->
            [sleeping |-> loops.sleeping - 1, recovering |-> loops.recovering + 1]
      [] pc = "exited" -> [loops EXCEPT !.sleeping = @ - 1]

\* start(): nothing when already running; else one new task per job.
SchedulerStart ==
    /\ ~scheduler_is_running
    /\ \A j \in Jobs : Live(j) < MaxLoops
    /\ scheduler_is_running' = TRUE
    /\ job_loops' = [j \in Jobs |-> [job_loops[j] EXCEPT !.sleeping = @ + 1]]
    /\ UNCHANGED <<services, job_counts, errors_count, health_status, critical_alert>>
    /\ UNCHANGED not_scheduler_vars

\* stop()
SchedulerStop ==
    /\ scheduler_is_running
    /\ scheduler_is_running' = FALSE
    /\ UNCHANGED <<services, job_loops, job_counts, errors_count, health_status, critical_alert>>
    /\ UNCHANGED not_scheduler_vars

\* The sleep of a cleanup or analytics loop ends and the job runs.
DbJobRound(j, db_raises) ==
    /\ j \in {"cleanup", "analytics"}
    /\ job_loops[j].sleeping > 0
    /\ LET result == IF scheduler_is_running THEN _perform_db_job(services, db_raises)
                     ELSE "skipped"
           raised == result = "raised"
       IN /\ raised => errors_count < MaxErrors
          /\ result = "done" => job_counts[j] < MaxRuns
          /\ job_counts' = IF result = "done" THEN [job_counts EXCEPT ![j] = @ + 1]
                           ELSE job_counts
          /\ errors_count' = IF raised THEN errors_count + 1 ELSE errors_count
          /\ job_loops' = [job_loops EXCEPT ![j] =
                 after_round(@, _run_job_task(scheduler_is_running, raised))]
    /\ UNCHANGED <<services, scheduler_is_running, health_status, critical_alert>>
    /\ UNCHANGED not_scheduler_vars

\* One call of _perform_health_check: its bookkeeping, and what it raises.
health_check_step(answers) ==
    LET result == _perform_health_check(services, answers) IN
    /\ result.raised => errors_count < MaxErrors
    /\ ~result.raised => job_counts["health_check"] < MaxRuns
    /\ job_counts' = IF result.raised THEN job_counts
                     ELSE [job_counts EXCEPT !["health_check"] = @ + 1]
    /\ health_status' = IF result.raised THEN health_status ELSE result.services
    /\ critical_alert' = IF result.raised THEN critical_alert ELSE result.alert

\* The sleep of the health check loop ends and the check runs.
HealthCheckRound(answers) ==
    /\ job_loops["health_check"].sleeping > 0
    /\ IF scheduler_is_running
       THEN /\ health_check_step(answers)
            /\ LET raised == _perform_health_check(services, answers).raised IN
               /\ errors_count' = IF raised THEN errors_count + 1 ELSE errors_count
               /\ job_loops' = [job_loops EXCEPT !["health_check"] =
                      after_round(@, _run_job_task(TRUE, raised))]
       ELSE /\ job_loops' = [job_loops EXCEPT !["health_check"] =
                      after_round(@, _run_job_task(FALSE, FALSE))]
            /\ UNCHANGED <<job_counts, errors_count, health_status, critical_alert>>
    /\ UNCHANGED <<services, scheduler_is_running>>
    /\ UNCHANGED not_scheduler_vars

\* The recovery sleep of a loop ends: the while tests is_running again.
JobRecover(j) ==
    /\ job_loops[j].recovering > 0
    /\ job_loops' = [job_loops EXCEPT ![j] =
           [sleeping |-> IF scheduler_is_running THEN @.sleeping + 1 ELSE @.sleeping,
            recovering |-> @.recovering - 1]]
    /\ UNCHANGED <<services, scheduler_is_running, job_counts, errors_count, health_status,
                   critical_alert>>
    /\ UNCHANGED not_scheduler_vars

\* force_health_check(): the check outside its loop; its exception goes to
\* the caller and is not counted.
ForceHealthCheck(answers) ==
    /\ health_check_step(answers)
    /\ UNCHANGED <<services, scheduler_is_running, job_loops, errors_count>>
    /\ UNCHANGED not_scheduler_vars

\* SchedulerService(services) as main.py builds it.
InitScheduler ==
    /\ services = ServiceNames
    /\ scheduler_is_running = FALSE
    /\ job_loops = [j \in Jobs |-> NoLoops]
    /\ job_counts = [j \in Jobs |-> 0]
    /\ errors_count = 0
    /\ health_status = NoStatus
    /\ critical_alert = "not_called"

(***************************************************************************)
(* The background coroutines of the other services: what starts them, what *)
(* an exception does to them, and what ends them.                          *)
(***************************************************************************)
\* The services that have an is_running flag and a stop method.
Monitors == {"telegram_scraper", "twitter_monitor", "telegram_notifier"}

\* TelegramScraperService.start_monitoring, the two tasks of
\* TwitterMonitorService.start_monitoring, DexscannerService.start_monitoring
\* and TelegramNotifierService._message_worker.
Loops == {"telegram_scraper", "twitter_stream", "twitter_search", "dexscanner", "message_worker"}

service_of(l) ==
    CASE l = "telegram_scraper" -> "telegram_scraper"
      [] l \in {"twitter_stream", "twitter_search"} -> "twitter_monitor"
      [] l = "dexscanner" -> "dexscanner"
      [] l = "message_worker" -> "telegram_notifier"

loops_of(s) == {l \in Loops : service_of(l) = s}

\* The test at the head of a loop: 'while self.is_running', and 'while True'
\* for the Dexscreener poller.
loop_condition(l) ==
    IF l = "dexscanner" THEN TRUE ELSE monitor_is_running[service_of(l)]

\* What the start of a service leaves behind.  The scraper connects and
\* checks the authorization inside its try: an exception there, or a user who
\* is not authorized, returns with is_running False.  The notifier creates
\* its worker only when _test_connection succeeds.  The Twitter monitor and
\* the Dexscreener poller enter their loops.
started(s, ok) ==
    CASE s = "telegram_scraper" -> [is_running |-> ok, pc |-> IF ok THEN "running" ELSE "ended"]
      [] s = "telegram_notifier" -> [is_running |-> ok, pc |-> IF ok THEN "running" ELSE "ended"]
      [] s = "twitter_monitor" -> [is_running |-> TRUE, pc |-> "running"]
      [] s = "dexscanner" -> [is_running |-> TRUE, pc |-> "running"]

\* What an exception does to a running coroutine.  run_until_disconnected of
\* the scraper is awaited in the try of start_monitoring, with no loop around
\* it: the except sets is_running False and the coroutine returns.  The
\* others catch the exception inside their while and sleep before the next
\* round; the Twitter stream sleeps only while is_running.
after_exception(l) ==
    CASE l = "telegram_scraper" -> [is_running |-> FALSE, pc |-> "ended"]
      [] l = "twitter_stream" ->
            [is_running |-> monitor_is_running["twitter_monitor"],
             pc |-> IF monitor_is_running["twitter_monitor"] THEN "recovering" ELSE "ended"]
      [] l = "twitter_search" ->
            [is_running |-> monitor_is_running["twitter_monitor"], pc |-> "recovering"]
      [] l = "dexscanner" -> [is_running |-> TRUE, pc |-> "recovering"]
      [] l = "message_worker" ->
            [is_running |-> monitor_is_running["telegram_notifier"], pc |-> "recovering"]

set_is_running(s, value) ==
    IF s \in Monitors THEN [monitor_is_running EXCEPT ![s] = value] ELSE monitor_is_running

\* start_monitoring() / start(), called once per service as main.py does.
MonitorStart(s, ok) ==
    /\ \A l \in loops_of(s) : loop_pc[l] = "idle"
    /\ s \in Monitors => ~monitor_is_running[s]
    /\ monitor_is_running' = set_is_running(s, started(s, ok).is_running)
    /\ loop_pc' = [l \in Loops |-> IF service_of(l) = s THEN started(s, ok).pc ELSE loop_pc[l]]
    /\ UNCHANGED stop_requested
    /\ UNCHANGED not_monitor_vars

\* A running coroutine meets an exception.
LoopException(l) ==
    /\ loop_pc[l] = "running"
    /\ monitor_is_running' = set_is_running(service_of(l), after_exception(l).is_running)
    /\ loop_pc' = [loop_pc EXCEPT ![l] = after_exception(l).pc]
    /\ UNCHANGED stop_requested
    /\ UNCHANGED not_monitor_vars

\* The sleep after an exception ends and the loop tests its condition.
LoopRecover(l) ==
    /\ loop_pc[l] = "recovering"
    /\ loop_pc' = [loop_pc EXCEPT ![l] = IF loop_condition(l) THEN "running" ELSE "ended"]
    /\ UNCHANGED <<monitor_is_running, stop_requested>>
    /\ UNCHANGED not_monitor_vars

\* A round without exception ends and the loop tests its condition; for the
\* scraper, run_until_disconnected returns once stop_monitoring has
\* disconnected the client.
LoopRound(l) ==
    /\ loop_pc[l] = "running"
    /\ l = "telegram_scraper" => ~monitor_is_running["telegram_scraper"]
    /\ loop_pc' = [loop_pc EXCEPT ![l] = IF loop_condition(l) THEN "running" ELSE "ended"]
    /\ UNCHANGED <<monitor_is_running, stop_requested>>
    /\ UNCHANGED not_monitor_vars

\* stop_monitoring() / stop()
MonitorStop(s) ==
    /\ s \in Monitors
    /\ monitor_is_running' = [monitor_is_running EXCEPT ![s] = FALSE]
    /\ stop_requested' = stop_requested \cup {s}
    /\ UNCHANGED loop_pc
    /\ UNCHANGED not_monitor_vars

InitMonitors ==
    /\ monitor_is_running = [s \in Monitors |-> FALSE]
    /\ loop_pc = [l \in Loops |-> "idle"]
    /\ stop_requested = {}

(***************************************************************************)
(* TokenScannerService: scan_token and what it gathers.                    *)
(***************************************************************************)
\* The four calls of get_token_basic_info, each with its own try.
MetadataCalls == {"name", "symbol", "decimals", "total_supply"}

\* The sources get_market_data tries in turn.
MarketSources == <<"dexscreener", "coingecko", "etherscan">>

\* What a source gives: a dict, None, or an exception.  _get_etherscan_data
\* is a placeholder that returns None.
SourceAnswers ==
    {a \in [{"dexscreener", "coingecko", "etherscan"} -> {"data", "none", "error"}] :
        a["etherscan"] = "none"}

NoData == [none |-> TRUE]

\* The value a metadata call leaves: what the contract answers, or the
\* default set before the try when the call raises.
metadata_value(field, ok) ==
    CASE field = "name" -> IF ok THEN "Foo" ELSE "Unknown"
      [] field = "symbol" -> IF ok THEN "FOO" ELSE "UNKNOWN"
      [] field = "decimals" -> IF ok THEN 6 ELSE DECIMALS_MAX
      [] field = "total_supply" -> IF ok THEN 1000 ELSE 0

\* get_token_basic_info: the cached dict if there is one; None when the
\* contract object cannot be built (web3 is None until initialize()); else
\* the four values, each replaced by its default when its call raises.
get_token_basic_info(web3, cache, calls) ==
    IF cache["basic_info"] # NoData THEN cache["basic_info"]
    ELSE IF ~web3 THEN NoData
    ELSE [f \in MetadataCalls |-> metadata_value(f, calls[f])]

\* MarketData(): every field 0.
MarketDataDefaults ==
    [price_usd |-> 0, market_cap |-> 0, liquidity_usd |-> 0, volume_24h |-> 0]

\* The fields of MarketData the dict of a source sets.
source_data(source) ==
    CASE source = "dexscreener" ->
            [MarketDataDefaults EXCEPT !.price_usd = 2, !.liquidity_usd = 50, !.volume_24h = 7]
      [] source = "coingecko" ->
            [MarketDataDefaults EXCEPT !.price_usd = 3, !.market_cap = 900, !.volume_24h = 8]
      [] OTHER -> MarketDataDefaults

\* get_market_data: the cached data if there is some; else the data of the
\* first source that gives a dict; a source that raises or gives None is
\* passed over, and with no source left the defaults stay.
get_market_data(cache, answers) ==
    IF cache["market_data"] # NoData THEN cache["market_data"]
    ELSE LET giving == {k \in 1..Len(MarketSources) : answers[MarketSources[k]] = "data"} IN
         IF giving = {} THEN MarketDataDefaults
         ELSE source_data(MarketSources[CHOOSE k \in giving : \A j \in giving : k <= j])

\* The fields of TokenInfo that have no default.
TokenInfoRequired == {"contract_address", "source"}

\* The keyword arguments scan_token passes to TokenInfo(...).
ScanTokenArguments ==
    {"contract_address", "name", "symbol", "decimals", "total_supply", "price_usd",
     "market_cap_usd", "liquidity_usd", "volume_24h_usd", "holders_count", "deployment_block",
     "created_at"}

NoTokenInfo == [none |-> TRUE]

\* TokenInfo(**arguments): pydantic ignores the arguments that are no field
\* and raises ValidationError when a required field is missing.
TokenInfo(arguments, basic_info, market_data) ==
    IF ~(TokenInfoRequired \subseteq arguments) THEN NoTokenInfo
    ELSE [name |-> basic_info["name"], symbol |-> basic_info["symbol"],
          decimals |-> basic_info["decimals"], total_supply |-> basic_info["total_supply"],
          price_usd |-> market_data.price_usd, market_cap_usd |-> market_data.market_cap,
          liquidity_usd |-> market_data.liquidity_usd,
          volume_24h_usd |-> market_data.volume_24h]

\* scan_token: None without basic info; else the market data are gathered
\* and the TokenInfo is built; the exception of TokenInfo(...) is caught by
\* the except of scan_token, which returns None.
scan_token(web3, cache, calls, answers) ==
    LET basic_info == get_token_basic_info(web3, cache, calls) IN
    IF basic_info = NoData
    THEN [basic_info |-> NoData, market_data |-> NoData, token_info |-> NoTokenInfo]
    ELSE LET market_data == get_market_data(cache, answers) IN
         [basic_info |-> basic_info, market_data |-> market_data,
          token_info |-> TokenInfo(ScanTokenArguments, basic_info, market_data)]

\* initialize(): web3 is set when the RPC endpoint answers.
ScannerInitialize(connected) ==
    /\ ~scanner_web3
    /\ scanner_web3' = connected
    /\ UNCHANGED <<scanner_cache, scanner_stats, scanned>>
    /\ UNCHANGED not_scanner_vars

\* scan_token(token_address), with what the four contract calls and the
\* market sources do during it.
ScanToken(calls, answers) ==
    LET result == scan_token(scanner_web3, scanner_cache, calls, answers)
        succeeded == result.token_info # NoTokenInfo
    IN  /\ scanner_stats.tokens_scanned < MaxScans
        /\ scanned' = result
        /\ scanner_cache' = [basic_info |-> result.basic_info, market_data |-> result.market_data]
        /\ scanner_stats' =
              [tokens_scanned |-> scanner_stats.tokens_scanned + 1,
               successful_scans |-> scanner_stats.successful_scans + (IF succeeded THEN 1 ELSE 0),
               failed_scans |-> scanner_stats.failed_scans + (IF succeeded THEN 0 ELSE 1)]
        /\ UNCHANGED scanner_web3
        /\ UNCHANGED not_scanner_vars

NotScanned == [basic_info |-> NoData, market_data |-> NoData, token_info |-> NoTokenInfo]

InitScanner ==
    /\ scanner_web3 = FALSE
    /\ scanner_cache = [basic_info |-> NoData, market_data |-> NoData]
    /\ scanner_stats = [tokens_scanned |-> 0, successful_scans |-> 0, failed_scans |-> 0]
    /\ scanned = NotScanned

(***************************************************************************)
(* websocket_listener.py: the messages of an open connection, from         *)
(* _handle_message to _process_contract_creation                           *)
(***************************************************************************)
\* A transaction of a block: its "to", and its "input" when it has one.
Transaction(to, has_input, input) == [to |-> to, has_input |-> has_input, input |-> input]

Transfer == Transaction("0xaa", TRUE, <<"0", "x">>)

Creation == Transaction("None", TRUE, <<"0", "x", "6", "0">>)

EmptyCreation == Transaction("None", TRUE, <<"0", "x">>)

\* What web3.eth.get_block gives for the number of a header: _get_block_with_transactions
\* returns None when there is no web3 or the call raises.
Block(found, transactions) == [found |-> found, transactions |-> transactions]

NoBlock == Block(FALSE, << >>)

QuietBlock == Block(TRUE, <<Transfer, EmptyCreation>>)

SmallBlock == Block(TRUE, <<Transfer, Creation>>)

\* One contract creation more than the semaphore admits.
FullBlock == Block(TRUE, [i \in 1..(MAX_CONCURRENT_ANALYSES + 1) |-> Creation])

\* A message of the connection: what its text is, and the block the node
\* holds for it when it is a header. id is the place of the message in the
\* order of arrival.
Message(text, block) == [text |-> text, block |-> block, id |-> 0]

NotHandling == [text |-> "none", block |-> NoBlock, id |-> 0, pc |-> "none"]

\* The texts: not JSON; the confirmation of a subscription; JSON that is not
\* an object ("result" in data raises TypeError); a header whose number is
\* not hexadecimal; a header.
Headers == {Message("header", b) : b \in {NoBlock, QuietBlock, SmallBlock, FullBlock}}

Messages ==
    {Message(t, NoBlock) : t \in {"invalid_json", "confirmation", "not_an_object", "bad_number"}}
        \cup {Message("header", b) : b \in {NoBlock, SmallBlock}}

_is_contract_creation(transaction) ==
    /\ transaction.to = "None"
    /\ transaction.has_input
    /\ Len(transaction.input) > 2

\* _scan_block_transactions: the contract creations of the block, in order.
contract_creations(transactions) == SelectSeq(transactions, _is_contract_creation)

\* Mutant of _handle_message: without its two except clauses.
_handle_message_uncaught(message) ==
    CASE message.text = "invalid_json" -> "raise"
      [] message.text = "confirmation" -> "confirmation"
      [] message.text = "not_an_object" -> "raise"
      [] message.text = "bad_number" -> "dropped"
      [] ~message.block.found -> "no_block"
      [] contract_creations(message.block.transactions) = << >> -> "no_creation"
      [] OTHER -> "scan"

\* _handle_message with _process_notification and _process_new_block, up to
\* the gather of _scan_block_transactions: json.loads raises for a text that
\* is not JSON and the membership tests raise for JSON that is not an object,
\* both caught by _handle_message; int(number, 16) raises inside the try of
\* _process_new_block.
_handle_message(message) ==
    CASE message.text = "invalid_json" -> "dropped"
      [] message.text = "confirmation" -> "confirmation"
      [] message.text = "not_an_object" -> "dropped"
      [] message.text = "bad_number" -> "dropped"
      [] ~message.block.found -> "no_block"
      [] contract_creations(message.block.transactions) = << >> -> "no_creation"
      [] OTHER -> "scan"

\* The coroutines of _process_contract_creation that hold the semaphore.
Running(block_probes) ==
    {tx \in DOMAIN block_probes : block_probes[tx] \in {"settle", "token_exists"}}

Finished(block_probes) ==
    \A tx \in DOMAIN block_probes : block_probes[tx] \in {"done", "failed"}

\* Mutant of locked: the semaphore admits every coroutine.
unlocked(block_probes) == FALSE

\* asyncio.Semaphore(MAX_CONCURRENT_ANALYSES).locked() of the block's scan.
locked(block_probes) == Cardinality(Running(block_probes)) >= MAX_CONCURRENT_ANALYSES

\* Mutant of gather_done: the coroutines are started and not awaited.
gather_not_awaited(block_probes) == TRUE

\* await asyncio.gather(*tasks, return_exceptions=True) returns.
gather_done(block_probes) == Finished(block_probes)

\* The node sends a message on the open connection.
Receive(message) ==
    /\ listener_pc = "listening"
    /\ websocket = "open"
    /\ arrived < MaxArrivals
    /\ Len(inbox) < MaxInbox
    /\ arrived' = arrived + 1
    /\ inbox' = Append(inbox, [message EXCEPT !.id = arrived + 1])
    /\ UNCHANGED <<handling, probes, handled, listener_stats>>
    /\ UNCHANGED not_block_vars

\* "async for message in websocket: await self._handle_message(message)":
\* the next message is taken once _handle_message has returned, and handled
\* up to its return or up to the gather of the block scan. An exception that
\* leaves _handle_message ends _connect_and_listen.
HandleMessage ==
    /\ listener_pc = "listening"
    /\ handling = NotHandling
    /\ inbox # << >>
    /\ LET message == Head(inbox)
           outcome == _handle_message(message)
           creations == contract_creations(message.block.transactions)
           header == message.text = "header"
       IN /\ inbox' = Tail(inbox)
          /\ listener_stats' =
                [listener_stats EXCEPT
                    !.messages_received = @ + 1,
                    !.last_block_number = IF header THEN message.id ELSE @]
          /\ IF outcome = "raise"
             THEN /\ websocket' = "closed"
                  /\ start_after("OSError")
                  /\ UNCHANGED is_running
                  /\ UNCHANGED <<handling, probes, handled>>
             ELSE /\ UNCHANGED listener_vars
                  /\ IF outcome = "scan"
                     THEN /\ handling' = message @@ [pc |-> "gather"]
                          /\ probes' = probes @@ (message.id :> [tx \in DOMAIN creations |-> "waiting"])
                          /\ UNCHANGED handled
                     ELSE /\ handled' = Append(handled, [id |-> message.id, outcome |-> outcome])
                          /\ UNCHANGED <<handling, probes>>
    /\ UNCHANGED arrived
    /\ UNCHANGED not_listener_vars

\* _process_contract_creation enters "async with semaphore", counts the
\* contract and sleeps two seconds. The coroutines of a gather start in
\* order and the semaphore wakes its waiters in order.
ProcessContractCreation(id, tx) ==
    /\ id \in DOMAIN probes
    /\ tx \in DOMAIN probes[id]
    /\ probes[id][tx] = "waiting"
    /\ \A earlier \in 1..(tx - 1) : probes[id][earlier] # "waiting"
    /\ ~locked(probes[id])
    /\ probes' = [probes EXCEPT ![id][tx] = "settle"]
    /\ listener_stats' = [listener_stats EXCEPT !.contracts_detected = @ + 1]
    /\ UNCHANGED <<inbox, arrived, handling, handled>>
    /\ UNCHANGED not_block_vars

\* What the receipt and the ERC20 probe give after the sleep.
ProbeOutcomes == {"raise", "no_receipt", "not_erc20", "erc20"}

\* After the sleep: the receipt is fetched and the contract is probed; for an
\* ERC20 token _handle_new_erc20_token counts it and awaits db.token_exists.
\* Everything else, an exception included, leaves "async with".
AfterSettle(id, tx, outcome) ==
    /\ id \in DOMAIN probes
    /\ tx \in DOMAIN probes[id]
    /\ probes[id][tx] = "settle"
    /\ probes' = [probes EXCEPT ![id][tx] =
                    CASE outcome = "erc20" -> "token_exists"
                      [] outcome = "raise" -> "failed"
                      [] OTHER -> "done"]
    /\ listener_stats' =
          [listener_stats EXCEPT
              !.tokens_processed = IF outcome = "erc20" THEN @ + 1 ELSE @]
    /\ UNCHANGED <<inbox, arrived, handling, handled>>
    /\ UNCHANGED not_block_vars

\* db.token_exists has answered: _handle_new_erc20_token returns, with the
\* analysis left to a task of its own, and the semaphore is released.
AfterTokenExists(id, tx) ==
    /\ id \in DOMAIN probes
    /\ tx \in DOMAIN probes[id]
    /\ probes[id][tx] = "token_exists"
    /\ probes' = [probes EXCEPT ![id][tx] = "done"]
    /\ UNCHANGED <<inbox, arrived, handling, handled, listener_stats>>
    /\ UNCHANGED not_block_vars

\* The gather of _scan_block_transactions returns, and with it
\* _process_new_block, _process_notification and _handle_message.
ScanDone ==
    /\ handling # NotHandling
    /\ gather_done(probes[handling.id])
    /\ handled' = Append(handled, [id |-> handling.id, outcome |-> "scanned"])
    /\ handling' = NotHandling
    /\ UNCHANGED <<inbox, arrived, probes, listener_stats>>
    /\ UNCHANGED not_block_vars

InitBlocks ==
    /\ inbox = << >>
    /\ arrived = 0
    /\ handling = NotHandling
    /\ probes = << >>
    /\ handled = << >>
    /\ listener_stats =
          [messages_received |-> 0, contracts_detected |-> 0, tokens_processed |-> 0,
           last_block_number |-> 0]

\* _message_worker, one await at a time: the message it has taken from the
\* queue is in flight until _send_message_to_all_chats has returned.

\* Mutant of at_queue_get: a message is taken while a send is in flight.
at_queue_get_always(in_flight) == TRUE

\* The worker awaits message_queue.get() only after the send of the message
\* before and the sleep that follows it.
at_queue_get(in_flight) == in_flight = << >>

\* message_queue.get() returns the message at the head of the queue.
WorkerGet ==
    /\ notifier_is_running
    /\ at_queue_get(sending)
    /\ message_queue # << >>
    /\ sending' = Append(sending, Head(message_queue))
    /\ message_queue' = Tail(message_queue)
    /\ UNCHANGED <<tokens_collection, notifier_is_running, enqueued, last_sent>>
    /\ UNCHANGED <<analyzer_vars, chain_vars, not_sender_vars>>

\* _send_message_to_all_chats has returned for a message in flight;
\* task_done is called and the worker sleeps half a second.
WorkerSent(k, outcomes) ==
    /\ k \in DOMAIN sending
    /\ last_sent' = [message |-> sending[k], sends |-> _send_message_to_all_chats(outcomes)]
    /\ sending' = SubSeq(sending, 1, k - 1) \o SubSeq(sending, k + 1, Len(sending))
    /\ UNCHANGED <<tokens_collection, message_queue, notifier_is_running, enqueued>>
    /\ UNCHANGED <<analyzer_vars, chain_vars, not_sender_vars>>

InitSender == sending = << >>

(***************************************************************************)
(* telegram_notifier.py: start, stop, the tasks of _message_worker and     *)
(* send_shutdown_message                                                   *)
(***************************************************************************)
ShutdownMessage == [kind |-> "shutdown", address |-> << >>, priority |-> "normal"]

\* A task of _message_worker: at the test of its while, awaiting
\* message_queue.get(), sending the message it took, or ended.
WorkerTask(pc, message) == [pc |-> pc, message |-> message]

\* The tasks of _message_worker that have not returned.
LiveWorkers == {w \in DOMAIN worker_tasks : worker_tasks[w].pc # "ended"}

\* asyncio.Queue._unfinished_tasks: the messages put for which task_done
\* was not called.
_unfinished_tasks ==
    Len(message_queue) + Cardinality({w \in DOMAIN worker_tasks : worker_tasks[w].pc = "send"})

\* Mutant of after_send: the worker returns when a send has failed.
after_send_until_failure(sends) ==
    IF \E c \in ChatIds : ~sends.results[c] THEN "ended" ELSE "while"

\* _message_worker after _send_message_to_all_chats: task_done, the sleep of
\* half a second and the test of the while again, whatever the sends gave.
after_send(sends) == "while"

\* start(): when _test_connection succeeds is_running is set and a task of
\* _message_worker is created; nothing is done otherwise.
NotifierStartTask(connected) ==
    /\ Len(worker_tasks) < MaxWorkers
    /\ IF connected
       THEN /\ notifier_is_running' = TRUE
            /\ worker_tasks' = Append(worker_tasks, WorkerTask("while", NoMessage))
       ELSE UNCHANGED <<notifier_is_running, worker_tasks>>
    /\ UNCHANGED <<tokens_collection, message_queue, enqueued, last_sent>>
    /\ UNCHANGED <<puts, attempted, stop_call, shutdown_pc>>
    /\ UNCHANGED not_task_vars

\* stop(): is_running is cleared and the HTTP client is closed.
NotifierStop ==
    /\ notifier_is_running' = FALSE
    /\ stop_call' = IF stop_call.called THEN stop_call ELSE [called |-> TRUE, puts |-> puts]
    /\ UNCHANGED <<tokens_collection, message_queue, enqueued, last_sent>>
    /\ UNCHANGED <<worker_tasks, puts, attempted, shutdown_pc>>
    /\ UNCHANGED not_task_vars

\* _queue_message, as awaited by the notify methods and send_startup_message.
QueueMessage(message) ==
    /\ puts < MaxPuts
    /\ message_queue' = _queue_message(message_queue, message)
    /\ puts' = puts + 1
    /\ UNCHANGED <<tokens_collection, notifier_is_running, enqueued, last_sent>>
    /\ UNCHANGED <<worker_tasks, attempted, stop_call, shutdown_pc>>
    /\ UNCHANGED not_task_vars

\* "while self.is_running" of _message_worker.
WorkerWhile(w) ==
    /\ w \in DOMAIN worker_tasks
    /\ worker_tasks[w].pc = "while"
    /\ worker_tasks' =
          [worker_tasks EXCEPT ![w].pc = IF notifier_is_running THEN "get" ELSE "ended"]
    /\ UNCHANGED <<tokens_collection, message_queue, notifier_is_running, enqueued, last_sent>>
    /\ UNCHANGED <<puts, attempted, stop_call, shutdown_pc>>
    /\ UNCHANGED not_task_vars

\* message_queue.get() gives the message at the head of the queue.
WorkerQueueGet(w) ==
    /\ w \in DOMAIN worker_tasks
    /\ worker_tasks[w].pc = "get"
    /\ message_queue # << >>
    /\ worker_tasks' = [worker_tasks EXCEPT ![w] = WorkerTask("send", Head(message_queue))]
    /\ message_queue' = Tail(message_queue)
    /\ UNCHANGED <<tokens_collection, notifier_is_running, enqueued, last_sent>>
    /\ UNCHANGED <<puts, attempted, stop_call, shutdown_pc>>
    /\ UNCHANGED not_task_vars

\* wait_for raises TimeoutError after one second on an empty queue: continue.
WorkerTimeout(w) ==
    /\ w \in DOMAIN worker_tasks
    /\ worker_tasks[w].pc = "get"
    /\ message_queue = << >>
    /\ worker_tasks' = [worker_tasks EXCEPT ![w].pc = "while"]
    /\ UNCHANGED <<tokens_collection, message_queue, notifier_is_running, enqueued, last_sent>>
    /\ UNCHANGED <<puts, attempted, stop_call, shutdown_pc>>
    /\ UNCHANGED not_task_vars

\* _send_message_to_all_chats has returned: task_done and the sleep.
WorkerSendDone(w, outcomes) ==
    /\ w \in DOMAIN worker_tasks
    /\ worker_tasks[w].pc = "send"
    /\ LET sends == _send_message_to_all_chats(outcomes)
       IN /\ last_sent' = [message |-> worker_tasks[w].message, sends |-> sends]
          /\ worker_tasks' = [worker_tasks EXCEPT ![w] = WorkerTask(after_send(sends), NoMessage)]
    /\ attempted' = attempted + 1
    /\ UNCHANGED <<tokens_collection, message_queue, notifier_is_running, enqueued>>
    /\ UNCHANGED <<puts, stop_call, shutdown_pc>>
    /\ UNCHANGED not_task_vars

WorkerStep(w) ==
    \/ WorkerWhile(w)
    \/ WorkerQueueGet(w)
    \/ WorkerTimeout(w)
    \/ \E outcomes \in [ChatIds -> SendOutcomes] : WorkerSendDone(w, outcomes)

\* send_shutdown_message: the message is queued and message_queue.join()
\* is awaited.
SendShutdownMessage ==
    /\ shutdown_pc = "idle"
    /\ puts < MaxPuts
    /\ message_queue' = _queue_message(message_queue, ShutdownMessage)
    /\ puts' = puts + 1
    /\ shutdown_pc' = "join"
    /\ UNCHANGED <<tokens_collection, notifier_is_running, enqueued, last_sent>>
    /\ UNCHANGED <<worker_tasks, attempted, stop_call>>
    /\ UNCHANGED not_task_vars

\* message_queue.join() returns when no put is left without its task_done.
ShutdownJoined ==
    /\ shutdown_pc = "join"
    /\ _unfinished_tasks = 0
    /\ shutdown_pc' = "returned"
    /\ UNCHANGED pipeline_vars
    /\ UNCHANGED <<worker_tasks, puts, attempted, stop_call>>
    /\ UNCHANGED not_task_vars

InitTasks ==
    /\ worker_tasks = << >>
    /\ puts = 0
    /\ attempted = 0
    /\ stop_call = [called |-> FALSE, puts |-> 0]
    /\ shutdown_pc = "idle"

(***************************************************************************)
(* dexscanner.py: start_monitoring and the freshness test of               *)
(* _get_latest_pairs, with the times as the code computes them             *)
(***************************************************************************)
\* datetime.fromtimestamp(seconds): the naive local time of the timestamp,
\* in seconds.
fromtimestamp(seconds, offset) == seconds + offset

\* datetime.utcnow(): the naive UTC time.
utcnow(t) == t

\* "if created_at: ... pair_time > cutoff_time": pairCreatedAt is in
\* milliseconds; None and 0 are false.
pair_is_recent(created_at, t, offset) ==
    /\ created_at # 0
    /\ fromtimestamp(created_at \div 1000, offset) > utcnow(t) - 3600

\* Mutant of after_scan: an exception of the round ends the loop.
after_scan_uncaught(error) == IF error = "none" THEN "sleep" ELSE "ended"

\* start_monitoring after _scan_new_pairs: the sleep of sixty seconds,
\* whether or not the round met an exception.
after_scan(error) == "sleep"

\* How the request of _get_latest_pairs ends.
FetchErrors == {"HTTPStatusError", "TimeoutException", "Exception"}

\* A pair of the answer with its pairCreatedAt.
DatedPair(pairAddress, created_at) == [pairAddress |-> pairAddress, created_at |-> created_at]

\* The pairs an answer at time t holds: without creation time, half an hour,
\* one hour and two hours old.
DatedPairs(t) ==
    {DatedPair(pa, c) :
        pa \in PairAddresses,
        c \in {0, (t - 1800) * 1000, (t - 3600) * 1000, (t - 7200) * 1000}}

Fetches(t) ==
    {[error |-> e, pairs |-> << >>] : e \in FetchErrors}
        \cup {[error |-> "none", pairs |-> <<p>>] : p \in DatedPairs(t)}
        \cup {[error |-> "none", pairs |-> <<p, p>>] : p \in DatedPairs(t)}

\* The pair as _get_latest_pairs and _process_new_pair see it.
dated(pair, t, offset) ==
    Pair(pair.pairAddress, pair_is_recent(pair.created_at, t, offset),
         FALSE, TRUE, MIN_LIQUIDITY, MIN_VOLUME, FALSE)

\* _get_latest_pairs on a fetch: an exception of the request gives [].
latest_pairs(fetch, processed, t, offset) ==
    IF fetch.error # "none" THEN << << >>, processed >>
    ELSE _get_latest_pairs([k \in DOMAIN fetch.pairs |-> dated(fetch.pairs[k], t, offset)],
                           << >>, processed)

\* The addresses of recent_pairs with the pairCreatedAt the answer gave them.
returned_pairs(fetch, recent_pairs) ==
    {p \in {fetch.pairs[k] : k \in DOMAIN fetch.pairs} :
        \E j \in DOMAIN recent_pairs : recent_pairs[j].pairAddress = p.pairAddress}

\* start_monitoring is awaited.
DexStartMonitoring ==
    /\ dex_loop_pc = "idle"
    /\ dex_loop_pc' = "scan"
    /\ UNCHANGED <<utc_offset, scan_rounds, last_scan, returned_count>>
    /\ UNCHANGED <<analyzer_vars, poller_vars, not_scan_vars>>

\* One round of start_monitoring: _scan_new_pairs with _get_latest_pairs
\* and _process_new_pair for each pair returned.
DexScanRound(fetch) ==
    LET got == latest_pairs(fetch, processed_pairs, now, utc_offset)
        tokens == interesting_tokens(got[1], now)
        returned == returned_pairs(fetch, got[1])
    IN  /\ dex_loop_pc = "scan"
        /\ scan_rounds < MaxScanRounds
        /\ scan_rounds' = scan_rounds + 1
        /\ processed_pairs' = got[2]
        /\ accepted' = accepted \cup {<<"dexscreener", a>> : a \in tokens}
        /\ forwarded' = IF tokens = {} THEN forwarded
                        ELSE UNION {dex_trigger_token_analysis(forwarded, a) : a \in tokens}
        /\ last_scan' = [error |-> fetch.error, returned |-> returned, at |-> now,
                         count |-> Len(got[1])]
        /\ returned_count' =
              [a \in PairAddresses |->
                  returned_count[a]
                    + Cardinality({j \in DOMAIN got[1] : got[1][j].pairAddress = a})]
        /\ dex_loop_pc' = after_scan(fetch.error)
        /\ UNCHANGED <<processed_messages, processed_tweets, utc_offset>>
        /\ UNCHANGED <<analyzer_vars, not_scan_vars>>

\* asyncio.sleep(60) of start_monitoring is over: "while True".
DexSleepDone ==
    /\ dex_loop_pc = "sleep"
    /\ now' = now + 60
    /\ dex_loop_pc' = "scan"
    /\ UNCHANGED <<ticks, _analysis_cache, tasks, ev, last_success>>
    /\ UNCHANGED <<utc_offset, scan_rounds, last_scan, returned_count>>
    /\ UNCHANGED <<poller_vars, not_scan_vars>>

NoScan == [error |-> "none", returned |-> {}, at |-> 0, count |-> 0]

InitScans ==
    /\ utc_offset = 0
    /\ dex_loop_pc = "idle"
    /\ scan_rounds = 0
    /\ last_scan = NoScan
    /\ returned_count = [a \in PairAddresses |-> 0]

InitService ==
    /\ InitPollers /\ InitDex /\ InitScheduler /\ InitMonitors /\ InitScanner /\ InitBlocks
    /\ InitSender /\ InitTasks /\ InitScans

Init == InitAnalyzer /\ InitPipeline /\ InitListener /\ InitProbe /\ InitService

\* The scores handed to notify_new_token.
OverallScores == {MIN_NOTIFICATION_SCORE - 1, MIN_NOTIFICATION_SCORE, 82}

\* The analysis of candidates, from the chain listener and the manual trigger.
Next ==
    \/ \E raw \in RawAddrs, db_ok \in BOOLEAN : HandleNewErc20Token(raw, db_ok)
    \/ \E raw \in RawAddrs : AnalyzeTokenManual(raw)
    \/ \E i \in Slots, found \in BOOLEAN : ScanReturn(i, found)
    \/ \E i \in Slots, answer \in FewAnswers : ApiAnswer(i, answer)
    \/ \E i \in Slots, db_ok \in BOOLEAN : SaveReturn(i, db_ok)

Spec == Init /\ [][Next]_vars

\* The candidates under load: one task slot more than MAX_CONCURRENT_ANALYSES,
\* and scans that find nothing, so that a task is in flight from create_task
\* to the return of scan_token.
LoadSlots == 1..(MAX_CONCURRENT_ANALYSES + 1)

InitLoad ==
    /\ now = 0
    /\ ticks = 0
    /\ _analysis_cache = << >>
    /\ tasks = [i \in LoadSlots |-> Idle]
    /\ ev = NoEvent
    /\ last_success = [k \in Keys |-> NeverScored]
    /\ InitPipeline /\ InitListener /\ InitProbe /\ InitService

NextLoad ==
    \/ \E raw \in RawAddrs, db_ok \in BOOLEAN : HandleNewErc20Token(raw, db_ok)
    \/ \E raw \in RawAddrs : AnalyzeTokenManual(raw)
    \/ \E i \in LoadSlots : ScanReturn(i, FALSE)

SpecLoad == InitLoad /\ [][NextLoad]_vars

\* The source pollers: Telegram messages, tweets and Dexscreener rounds.
NextPollers ==
    \/ \E monitored \in BOOLEAN, id \in MessageIds, text \in Texts : ProcessMessage(monitored, id, text)
    \/ \E id \in MessageIds, text \in Texts : ProcessTweet(id, text)
    \/ \E response \in PairResponses : ScanNewPairs(response)

SpecPollers == Init /\ [][NextPollers]_vars

\* The callers of the Dexscreener API of one DexscannerService.
NextDex ==
    \/ \E c \in Callers, method \in DexMethods : DexCall(c, method)
    \/ \E c \in Callers : DexWake(c)
    \/ \E c \in Callers : DexResponse(c)
    \/ \E d \in {MIN_REQUEST_INTERVAL \div 2, MIN_REQUEST_INTERVAL} : DexTick(d)

SpecDex == Init /\ [][NextDex]_vars

\* The notifier on its own: callers of notify_new_token, the worker, the clock.
NextNotifier ==
    \/ \E raw \in RawAddrs, s \in OverallScores, formats \in BOOLEAN : NotifyNewToken(raw, s, formats)
    \/ \E connected \in BOOLEAN : NotifierStart(connected)
    \/ \E outcomes \in [ChatIds -> SendOutcomes] : MessageWorker(outcomes)
    \/ \E d \in TickSteps : Tick(d)

SpecNotifier == Init /\ [][NextNotifier]_vars

\* The queue of the notifier and its worker: token alerts, alerts of every
\* priority and status messages are queued, the worker sends them.
NextWorker ==
    \/ \E raw \in RawAddrs, s \in OverallScores, formats \in BOOLEAN : NotifyNewToken(raw, s, formats)
    \/ \E priority \in AlertPriorities : NotifyAlert(priority)
    \/ NotifySystemStatus
    \/ \E connected \in BOOLEAN : NotifierStart(connected)
    \/ \E outcomes \in [ChatIds -> SendOutcomes] : MessageWorker(outcomes)

SpecWorker == Init /\ [][NextWorker]_vars

\* The chain listener: its connection, the reconnections, stop().
NextListener ==
    \/ Start
    \/ ConnectOk
    \/ \E error \in ConnectErrors : ConnectFail(error)
    \/ SubscribeOk
    \/ \E end \in StreamEnds : StreamEnd(end)
    \/ BackoffDone
    \/ Stop

SpecListener == Init /\ [][NextListener]_vars

\* _is_erc20_token on the contracts of Probes.
InitProbes ==
    /\ InitAnalyzer /\ InitPipeline /\ InitListener /\ InitService
    /\ probe \in Probes
    /\ probed = FALSE
    /\ is_token = FALSE

NextProbe == IsErc20Token

SpecProbe == InitProbes /\ [][NextProbe]_vars

\* The analyzer with its cache, while time passes.
NextAnalyzer ==
    \/ \E raw \in RawAddrs : AnalyzeToken(raw)
    \/ \E i \in Slots, answer \in FewAnswers : ApiAnswer(i, answer)
    \/ \E d \in TickSteps : Tick(d)

SpecAnalyzer == Init /\ [][NextAnalyzer]_vars

\* The analyzer against every answer of the scoring API, at one instant.
NextScoring ==
    \/ \E raw \in RawAddrs : AnalyzeToken(raw)
    \/ \E i \in Slots, answer \in Answers : ApiAnswer(i, answer)

SpecScoring == Init /\ [][NextScoring]_vars

(***************************************************************************)
(* Properties of the analyzer.                                             *)
(***************************************************************************)
\* The step taken last entered analyze_token (it ended at the cache hit or at
\* the await of the scoring API).
Entered == ev.op = "analyze_token" /\ ev.phase \in {"cached", "await"}

\* The step taken last returned from analyze_token after the scoring API answered.
Returned == ev.op = "analyze_token" /\ ev.phase = "return"

\* Every entry of the cache is the result of the last successful scoring of
\* its key, stamped with the time of that scoring.
EntriesComeFromScorings ==
    \A k \in DOMAIN _analysis_cache :
        /\ k \in Keys
        /\ _analysis_cache[k].analysis # None
        /\ _analysis_cache[k].analysis = last_success[k].ai
        /\ _analysis_cache[k].timestamp = last_success[k].at

C5_ExpiredRecomputed ==
    /\ (Entered /\ ev.age >= CACHE_TTL_SECONDS)
         => /\ ev.phase = "await"
            /\ lower(ev.address) \notin DOMAIN _analysis_cache
            /\ \E i \in Slots : tasks[i].pc = "api" /\ tasks[i].address = ev.address
    /\ EntriesComeFromScorings
    /\ (Returned /\ ev.status = COMPLETED)
         => /\ lower(ev.address) \in DOMAIN _analysis_cache
            /\ _analysis_cache[lower(ev.address)].analysis = ev.ai

\* C5 witness: a call found an entry exactly CACHE_TTL_SECONDS old and is
\* awaiting the scoring API.
C5_Witness ==
    /\ Entered /\ ev.phase = "await" /\ ev.age = CACHE_TTL_SECONDS
    /\ lower(ev.address) \notin DOMAIN _analysis_cache

\* C8: when the scoring API times out, analyze_token returns FAILED without an
\* analysis, the cache holds no entry that is not the result of a successful
\* scoring, the coroutine is gone, and a call for another address can be made.
C8_TimeoutFails ==
    (Returned /\ ev.answer.api = "timeout")
    => /\ ev.status = FAILED
       /\ ev.ai = None
       /\ EntriesComeFromScorings
       /\ (last_success[lower(ev.address)] = NeverScored
             => lower(ev.address) \notin DOMAIN _analysis_cache)
       /\ \E raw \in RawAddrs : lower(raw) # lower(ev.address) /\ ENABLED AnalyzeToken(raw)

\* C8 witness: a call whose scoring timed out returned FAILED, and its address
\* is not cached.
C8_Witness ==
    /\ Returned /\ ev.answer.api = "timeout" /\ ev.status = FAILED
    /\ lower(ev.address) \notin DOMAIN _analysis_cache

\* The answer is one C9 speaks of: not JSON, a required field missing, or a
\* score or a confidence that is not a number of its range.
Rejectable(answer) ==
    /\ answer.api = "ok"
    /\ \/ answer.content # "json"
       \/ \E f \in RequiredFields : f \notin answer.data.has
       \/ answer.data.score_t # "num"
       \/ answer.data.score < 0 \/ answer.data.score > SCORE_MAX
       \/ answer.data.conf_t # "num"
       \/ answer.data.conf < 0 \/ answer.data.conf > CONFIDENCE_MAX

\* C9: an answer that is not JSON, lacks a required field, or has a score
\* outside [0,10] or a confidence outside [0,1] makes analyze_token return
\* FAILED without an analysis, and nothing is stored for it in the cache.
C9_MalformedRejected ==
    (Returned /\ Rejectable(ev.answer))
    => /\ ev.status = FAILED
       /\ ev.ai = None
       /\ EntriesComeFromScorings
       /\ (last_success[lower(ev.address)] = NeverScored
             => lower(ev.address) \notin DOMAIN _analysis_cache)

\* C9 witness: an answer with a score above 10 was rejected and its address is
\* not cached.
C9_Witness ==
    /\ Returned /\ ev.answer.api = "ok" /\ ev.answer.content = "json"
    /\ ev.answer.data.score > SCORE_MAX
    /\ ev.status = FAILED
    /\ lower(ev.address) \notin DOMAIN _analysis_cache

\* The answer is well-formed but for its recommendation, a string that is none
\* of buy, hold, avoid, research in any letter case.
UnknownRecommendation(answer) ==
    /\ answer.api = "ok" /\ answer.content = "json"
    /\ RequiredFields \subseteq answer.data.has
    /\ answer.data.score_t = "num" /\ 0 <= answer.data.score /\ answer.data.score <= SCORE_MAX
    /\ answer.data.conf_t = "num" /\ 0 <= answer.data.conf /\ answer.data.conf <= CONFIDENCE_MAX
    /\ answer.data.extras_ok
    /\ answer.data.rec_t = "str"
    /\ lower(answer.data.rec) \notin Recommendation

AnalysesInFlight(a) ==
    {i \in Slots : tasks[i].src \in {"ws", "manual"} /\ tasks[i].address = a}

\* C1: when an address that is not in the persistence store is reported by
\* several emissions that overlap in time, from the chain listener and/or the
\* manual trigger, exactly one of them starts a scan+scoring analysis: there
\* are never two analyses of one such address in flight.
C1_OneAnalysisPerAddress ==
    \A a \in Keys :
        a \notin tokens_collection => Cardinality(AnalysesInFlight(a)) <= 1

\* The token alerts for address a put on the notifier's queue so far.
AlertsFor(a) == {k \in 1..Len(enqueued) : enqueued[k].address = a}

\* C2: of two qualifying analyses of one address handed to the notifier within
\* the notification cooldown, only one is enqueued: two alerts of one address
\* on the queue are at least NOTIFICATION_COOLDOWN_MINUTES apart.
C2_OneAlertPerCooldown ==
    \A j, k \in 1..Len(enqueued) :
        (j < k /\ enqueued[j].address = enqueued[k].address)
        => enqueued[k].at - enqueued[j].at >= NOTIFICATION_COOLDOWN_MINUTES * 60

\* C3: when an analysis has completed with a score of at least
\* MIN_NOTIFICATION_SCORE for an address not notified before, and its task has
\* called the notifier and ended, exactly one alert for the address has been
\* put on the notifier's queue.
C3_QualifyingAnalysisAlerted ==
    ( /\ ev.op = "pipeline" /\ ev.phase = "done"
      /\ ev.status = COMPLETED
      /\ ai_score(ev.ai) >= MIN_NOTIFICATION_SCORE )
    => Cardinality(AlertsFor(ev.address)) = 1

(***************************************************************************)
(* The reconnections of the chain listener.                                *)
(***************************************************************************)
\* C6: N consecutive connection failures, N <= max_reconnect_attempts, have
\* produced exactly N backoff waits, the i-th of reconnect_delay * i;
\* reconnect_attempts never exceeds max_reconnect_attempts; and a failure at
\* reconnect_attempts = max_reconnect_attempts ends the loop, with no further
\* wait and no further connection attempt.
C6_BackoffPerFailure ==
    /\ reconnect_attempts <= MAX_RECONNECT_ATTEMPTS
    /\ fails <= MAX_RECONNECT_ATTEMPTS
       => /\ Len(waits) = fails
          /\ \A i \in 1..Len(waits) : waits[i] = WEBSOCKET_RECONNECT_DELAY * i
    /\ fails > MAX_RECONNECT_ATTEMPTS
       => /\ listener_pc = "terminated"
          /\ Len(waits) = MAX_RECONNECT_ATTEMPTS

(***************************************************************************)
(* The ERC20 probe.                                                        *)
(***************************************************************************)
\* The four calls are made and each of them returns.
AllCallsSucceed ==
    /\ probe.web3
    /\ probe.name.kind = "ok" /\ probe.symbol.kind = "ok"
    /\ probe.decimals.kind = "ok" /\ probe.total_supply.kind = "ok"

\* name and symbol are non-empty strings, decimals is an integer in [0,18],
\* totalSupply is an integer > 0.
Erc20Shaped ==
    /\ probe.name.type = "str" /\ probe.name.text # << >>
    /\ probe.symbol.type = "str" /\ probe.symbol.text # << >>
    /\ probe.decimals.type = "int" /\ probe.decimals.number \in 0..18
    /\ probe.total_supply.type = "int" /\ probe.total_supply.number.m >= 1

\* name = "Foo", symbol = "FOO", decimals = 18, totalSupply = 10^21.
FooContract ==
    /\ probe.web3
    /\ probe.name = Call("ok", "str", Foo, 0)
    /\ probe.symbol = Call("ok", "str", FOO, 0)
    /\ probe.decimals = Call("ok", "int", << >>, 18)
    /\ probe.total_supply = Call("ok", "int", << >>, BigInt(1, 21))

\* C7: _is_erc20_token returns True exactly when the four calls succeed and
\* name and symbol are non-empty strings, decimals is an integer in [0,18] and
\* totalSupply is an integer > 0; a contract on which one of the calls fails
\* is no token; Foo / FOO / 18 / 10^21 is a token.
C7_Erc20Classification ==
    probed => /\ is_token <=> (AllCallsSucceed /\ Erc20Shaped)
              /\ ~AllCallsSucceed => ~is_token
              /\ FooContract => is_token

\* C7 witness: the probe of Foo / FOO / 18 / 10^21 has returned True.
C7_Witness == probed /\ FooContract /\ is_token

\* C11: no token alert is handed to the notifier or enqueued for an analysis
\* that is FAILED or whose score is below MIN_NOTIFICATION_SCORE: the task of
\* such an analysis ends without having called the notifier, and nothing has
\* been put on the notifier's queue.
C11_NoAlertBelowThreshold ==
    ( /\ ev.op = "pipeline" /\ ev.phase = "done" /\ ev.status # "none"
      /\ (ev.status = FAILED \/ ai_score(ev.ai) < MIN_NOTIFICATION_SCORE) )
    => /\ ev.alert \in {"TypeError", "below"}
       /\ AlertsFor(ev.address) = {}
       /\ message_queue = << >>

\* C11 witness: an analysis with a score below the threshold has been saved
\* and its task has ended without calling the notifier.
C11_Witness ==
    /\ ev.op = "pipeline" /\ ev.phase = "done"
    /\ ev.status = COMPLETED
    /\ ev.ai # None /\ ai_score(ev.ai) < MIN_NOTIFICATION_SCORE
    /\ ev.alert = "below"
    /\ ev.address \in tokens_collection

\* The analyses in flight: the tasks of _analyze_token_async and of
\* analyze_token_background that have been started and have not ended.
InFlight == {i \in DOMAIN tasks : tasks[i].src \in {"ws", "manual"}}

\* C12: at every moment the number of analyses in flight, over the chain
\* listener and the manual trigger together, is at most
\* MAX_CONCURRENT_ANALYSES.
C12_BoundedAnalyses == Cardinality(InFlight) <= MAX_CONCURRENT_ANALYSES

(***************************************************************************)
(* The source pollers.                                                     *)
(***************************************************************************)
\* C13: every candidate address a source poller has accepted has been
\* forwarded: once the poller's _trigger_token_analysis has returned for it, a
\* scan+scoring analysis of the address has been started.
C13_AcceptedForwarded == accepted \subseteq forwarded

\* The HTTP requests of the DexscannerService in flight.
RequestsInFlight == {c \in Callers : dex_callers[c].pc = "request"}

\* C14: for one DexscannerService, whatever the interleaving of the callers
\* of _get_latest_pairs, get_token_data and get_pair_data, no two HTTP
\* requests are in flight at the same time and consecutive requests start at
\* least min_request_interval apart.
C14_OneRequestPerInterval ==
    /\ Cardinality(RequestsInFlight) <= 1
    /\ \A k \in 1..(Len(request_starts) - 1) :
           request_starts[k + 1] - request_starts[k] >= MIN_REQUEST_INTERVAL

(***************************************************************************)
(* The worker of the notifier.                                             *)
(***************************************************************************)
\* C15: for the message the worker has dequeued, exactly one send was
\* attempted to every configured chat id, whatever the sends to the other
\* chats returned, and the message is not sent again: it has left the queue
\* with its one round of sends.
C15_OneSendPerChat ==
    last_sent.message # NoMessage
    => \A c \in ChatIds : last_sent.sends.attempts[c] = 1

\* C15 witness: the send to the first chat has failed and the send to the
\* second chat has been made and has succeeded.
C15_Witness ==
    /\ last_sent.message # NoMessage
    /\ ~last_sent.sends.results[chat_ids[1]]
    /\ last_sent.sends.results[chat_ids[2]]
    /\ last_sent.sends.attempts[chat_ids[2]] = 1

\* The rank of a priority of _queue_message.
PriorityRank(priority) ==
    CASE priority = "high" -> 3 [] priority = "normal" -> 2 [] OTHER -> 1

\* C16: when the worker takes a message from the queue, no message still
\* pending has a higher priority: a critical alert goes before any pending
\* normal message, a normal one before any pending low one.
C16_PriorityOrder ==
    [][ (message_queue # << >> /\ message_queue' = Tail(message_queue))
        => \A k \in 1..Len(message_queue) :
              PriorityRank(message_queue[k].priority)
                 <= PriorityRank(Head(message_queue).priority) ]_vars

\* The scheduler: start(), stop() and the rounds of its three loops.  The
\* health checks of the rounds meet all services healthy, all unhealthy, or a
\* database whose check raises.
FewHealthAnswers ==
    {[k \in HealthKeys |-> "True"], [k \in HealthKeys |-> "False"],
     [k \in HealthKeys |-> IF k = "database" THEN "Exception" ELSE "True"]}

NextScheduler ==
    \/ SchedulerStart
    \/ SchedulerStop
    \/ \E j \in Jobs, db_raises \in BOOLEAN : DbJobRound(j, db_raises)
    \/ \E answers \in FewHealthAnswers : HealthCheckRound(answers)
    \/ \E j \in Jobs : JobRecover(j)

SpecScheduler == Init /\ [][NextScheduler]_vars

\* One health check over every registration of services and every answer.
InitHealth ==
    /\ InitAnalyzer /\ InitPipeline /\ InitListener /\ InitProbe /\ InitPollers /\ InitDex
    /\ InitMonitors /\ InitScanner /\ InitBlocks /\ InitSender /\ InitTasks /\ InitScans
    /\ services \in SUBSET ServiceNames
    /\ scheduler_is_running = FALSE
    /\ job_loops = [j \in Jobs |-> NoLoops]
    /\ job_counts = [j \in Jobs |-> 0]
    /\ errors_count = 0
    /\ health_status = NoStatus
    /\ critical_alert = "not_called"

NextHealth == \E answers \in HealthAnswers : ForceHealthCheck(answers)

SpecHealth == InitHealth /\ [][NextHealth]_vars

\* C17: while the scheduler is running no loop of any of its jobs ends: a
\* step that leaves is_running set leaves every job at least as many loops
\* alive (asleep before the next run, or in the recovery delay after an
\* exception) as it had; and every job has a loop alive.
C17_JobLoopsSurvive ==
    /\ [](scheduler_is_running => \A j \in Jobs : Live(j) >= 1)
    /\ [][(scheduler_is_running /\ scheduler_is_running')
            => \A j \in Jobs : Live(j)' >= Live(j)]_vars

\* C17 witness: a job has raised, its loop has come back from the recovery
\* delay, and all three loops are asleep before their next run.
C17_Witness ==
    /\ scheduler_is_running
    /\ errors_count >= 1
    /\ \A j \in Jobs : job_loops[j].sleeping >= 1 /\ job_loops[j].recovering = 0

\* C18: after a health check, the critical alert has gone out if and only if
\* fewer than half of the collected statuses are healthy.
C18_AlertIffUnderHalf ==
    health_status # NoStatus => (critical_alert = "sent" <=> under_half(health_status))

\* The background coroutines of the scraper, the Twitter monitor, the
\* Dexscreener poller and the notifier.
NextMonitors ==
    \/ \E s \in Monitors \cup {"dexscanner"}, ok \in BOOLEAN : MonitorStart(s, ok)
    \/ \E l \in Loops : LoopException(l)
    \/ \E l \in Loops : LoopRecover(l)
    \/ \E l \in Loops : LoopRound(l)
    \/ \E s \in Monitors : MonitorStop(s)

SpecMonitors == Init /\ [][NextMonitors]_vars

\* C19: the coroutine of the Telegram scraper, of the Twitter monitor, of the
\* Dexscreener poller and of the notifier worker has ended only if the stop
\* method of its service has been called.
C19_EndedOnlyByStop ==
    \A l \in Loops : loop_pc[l] = "ended" => service_of(l) \in stop_requested

\* C20: once stop() has returned, the listener is on its way out of the loop
\* of start(): it neither subscribes nor waits for messages on an open
\* connection, whatever phase stop() met it in.
C20_StopEndsListening ==
    (~is_running /\ listener_pc \in {"subscribing", "listening"}) => websocket = "closed"

C22_StoredNeverRestarted ==
    (ev.op = "pipeline" /\ ev.phase = "started") => lower(ev.address) \notin tokens_collection

\* The scanner: initialize() and scans of one token.
NextScan ==
    \/ \E connected \in BOOLEAN : ScannerInitialize(connected)
    \/ \E calls \in [MetadataCalls -> BOOLEAN], answers \in SourceAnswers : ScanToken(calls, answers)

SpecScan == Init /\ [][NextScan]_vars

\* C23: a scan that got the basic information of the token, whatever
\* metadata call or market source failed during it, returns its TokenInfo,
\* with the defaults in the place of the metadata that failed and zeros in
\* the place of the market data no source gave.
C23_ScanToleratesFailures ==
    scanned.basic_info # NoData => scanned.token_info # NoTokenInfo

\* C24: while the listener is running, every step in which a connection
\* fails to open or an open connection ends is counted in reconnect_attempts
\* and leads to the backoff wait, or ends the loop when the limit is reached.
C24_FailureBacksOff ==
    [][(is_running /\ fails' = fails + 1)
         => \/ listener_pc' = "backoff" /\ reconnect_attempts' = reconnect_attempts + 1
            \/ listener_pc' = "terminated"]_vars

\* C25: reconnect_attempts goes back to 0 only in the step in which the
\* newHeads subscription has been sent on the opened connection.
C25_ResetAfterSubscription ==
    [][(reconnect_attempts # 0 /\ reconnect_attempts' = 0)
         => (listener_pc = "subscribing" /\ listener_pc' = "listening")]_vars

\* C26: reconnect_attempts stays within 0..max_reconnect_attempts; the loop
\* of start() ends while is_running is set only in a step in which a
\* connection error is raised at reconnect_attempts = max_reconnect_attempts,
\* and it ends otherwise only once stop() has cleared is_running.
C26_BoundedAttempts ==
    /\ [](0 <= reconnect_attempts /\ reconnect_attempts <= MAX_RECONNECT_ATTEMPTS)
    /\ [](listener_pc = "stopped" => ~is_running)
    /\ [][(listener_pc # "terminated" /\ listener_pc' = "terminated")
            => /\ reconnect_attempts = MAX_RECONNECT_ATTEMPTS
               /\ reconnect_attempts' = reconnect_attempts
               /\ fails' = fails + 1
               /\ listener_pc \in {"connecting", "subscribing", "listening"}]_vars

\* C26 witness: the loop has ended with is_running still set, after the
\* connection error that followed the last allowed attempt.
C26_Witness ==
    /\ listener_pc = "terminated"
    /\ is_running
    /\ reconnect_attempts = MAX_RECONNECT_ATTEMPTS
    /\ Len(waits) = MAX_RECONNECT_ATTEMPTS

\* The block headers of one connection and the scans of their blocks.
NextBlocks ==
    \/ Start
    \/ ConnectOk
    \/ SubscribeOk
    \/ \E message \in Headers : Receive(message)
    \/ HandleMessage
    \/ \E id \in 1..MaxArrivals, tx \in 1..(MAX_CONCURRENT_ANALYSES + 1) :
            ProcessContractCreation(id, tx)
    \/ \E id \in 1..MaxArrivals, tx \in 1..(MAX_CONCURRENT_ANALYSES + 1),
          outcome \in {"not_erc20", "erc20"} : AfterSettle(id, tx, outcome)
    \/ \E id \in 1..MaxArrivals, tx \in 1..(MAX_CONCURRENT_ANALYSES + 1) :
            AfterTokenExists(id, tx)
    \/ ScanDone

SpecBlocks == Init /\ [][NextBlocks]_vars

\* The messages of one connection, the malformed ones included.
NextMessages ==
    \/ Start
    \/ ConnectOk
    \/ SubscribeOk
    \/ \E message \in Messages : Receive(message)
    \/ HandleMessage
    \/ \E id \in 1..MaxArrivals : ProcessContractCreation(id, 1)
    \/ \E id \in 1..MaxArrivals, outcome \in ProbeOutcomes : AfterSettle(id, 1, outcome)
    \/ \E id \in 1..MaxArrivals : AfterTokenExists(id, 1)
    \/ ScanDone

SpecMessages == Init /\ [][NextMessages]_vars

\* C27: the messages of a connection are handed to _handle_message in the
\* order of their arrival, and a message is taken, and with it the block of a
\* header fetched and its contract creations started, only when every
\* _process_contract_creation of the headers before it has finished.
C27_BlocksInOrder ==
    /\ [](\A a, b \in DOMAIN probes : a < b => Finished(probes[a]))
    /\ [][listener_stats'.messages_received = listener_stats.messages_received + 1
            => /\ Head(inbox).id = listener_stats'.messages_received
               /\ \A id \in DOMAIN probes : Finished(probes[id])]_vars

\* C27 witness: the contract creation of a second block is under way, after
\* the six of the block before it have finished.
C27_Witness ==
    /\ DOMAIN probes = {1, 2}
    /\ DOMAIN probes[1] = 1..(MAX_CONCURRENT_ANALYSES + 1)
    /\ Finished(probes[1])
    /\ probes[2][1] = "settle"

\* C28: at most MAX_CONCURRENT_ANALYSES coroutines of
\* _process_contract_creation are between their settle delay and the end of
\* their probe, and the scan of a block returns only when every contract
\* creation of the block has been counted and has finished.
C28_BoundedProbes ==
    /\ [](Cardinality(UNION {{<<id, tx>> : tx \in Running(probes[id])} : id \in DOMAIN probes})
            <= MAX_CONCURRENT_ANALYSES)
    /\ [][(handling # NotHandling /\ handling' = NotHandling)
            => /\ DOMAIN probes[handling.id]
                    = DOMAIN contract_creations(handling.block.transactions)
               /\ Finished(probes[handling.id])]_vars
    /\ [](handling = NotHandling
            => listener_stats.contracts_detected
                 = Cardinality(UNION {{<<id, tx>> : tx \in DOMAIN probes[id]} : id \in DOMAIN probes}))

\* C28 witness: five contract creations of a block hold the semaphore and
\* the sixth waits.
C28_Witness ==
    \E id \in DOMAIN probes :
        /\ Cardinality(Running(probes[id])) = MAX_CONCURRENT_ANALYSES
        /\ probes[id][MAX_CONCURRENT_ANALYSES + 1] = "waiting"

\* C28 witness of the second half: the scan of a block of six contract
\* creations has returned.
C28_ScanReturned ==
    /\ handling = NotHandling
    /\ \E id \in DOMAIN probes :
          /\ DOMAIN probes[id] = 1..(MAX_CONCURRENT_ANALYSES + 1)
          /\ handled # << >>
          /\ handled[Len(handled)] = [id |-> id, outcome |-> "scanned"]

\* The texts _handle_message or _process_new_block cannot process.
BadTexts == {"invalid_json", "not_an_object", "bad_number"}

\* C29: when a message that is not valid JSON, or whose processing raises,
\* is handled, or when the processing of a contract creation raises, the
\* websocket stays open, the listener keeps listening with
\* reconnect_attempts unchanged, the message is dropped and the listener is
\* ready for the next message.
C29_BadMessageDropped ==
    /\ [][(listener_stats'.messages_received = listener_stats.messages_received + 1
             /\ Head(inbox).text \in BadTexts)
            => /\ websocket' = "open"
               /\ listener_pc' = "listening"
               /\ reconnect_attempts' = reconnect_attempts
               /\ handling' = NotHandling
               /\ handled' = Append(handled, [id |-> Head(inbox).id, outcome |-> "dropped"])]_vars
    /\ [][(\E id \in DOMAIN probes : \E tx \in DOMAIN probes[id] :
                probes[id][tx] # "failed" /\ probes'[id][tx] = "failed")
            => /\ websocket' = "open"
               /\ listener_pc' = "listening"
               /\ reconnect_attempts' = reconnect_attempts]_vars

\* C29 witness: a message that is not JSON was dropped and the header after
\* it had its block scanned, on the same open connection.
C29_Witness ==
    /\ websocket = "open"
    /\ listener_pc = "listening"
    /\ Len(handled) = 2
    /\ handled[1].outcome = "dropped"
    /\ handled[2].outcome = "scanned"
    /\ listener_stats.messages_received = 2

\* C29 witness of the second case: the processing of a contract creation
\* raised and the scan of its block returned.
C29_ProbeRaised ==
    /\ websocket = "open"
    /\ handling = NotHandling
    /\ \E id \in DOMAIN probes : probes[id][1] = "failed"

\* The queue of the notifier and its worker, one await of the worker at a time.
NextSender ==
    \/ \E raw \in RawAddrs, s \in OverallScores, formats \in BOOLEAN : NotifyNewToken(raw, s, formats)
    \/ \E priority \in AlertPriorities : NotifyAlert(priority)
    \/ NotifySystemStatus
    \/ \E connected \in BOOLEAN : NotifierStart(connected)
    \/ WorkerGet
    \/ \E k \in 1..MaxQueue, outcomes \in [ChatIds -> SendOutcomes] : WorkerSent(k, outcomes)

SpecSender == Init /\ [][NextSender]_vars

C38_OneLoopPerJob == \A j \in Jobs : Live(j) <= 1

\* The notifier: calls of start(), stop(), of the notify methods and of
\* send_shutdown_message in any order, and the steps of the worker tasks.
NextTasks ==
    \/ \E connected \in BOOLEAN : NotifierStartTask(connected)
    \/ NotifierStop
    \/ QueueMessage(StatusMessage)
    \/ \E w \in 1..MaxWorkers : WorkerWhile(w)
    \/ \E w \in 1..MaxWorkers : WorkerQueueGet(w)
    \/ \E w \in 1..MaxWorkers : WorkerTimeout(w)
    \/ \E w \in 1..MaxWorkers, outcomes \in [ChatIds -> SendOutcomes] : WorkerSendDone(w, outcomes)
    \/ SendShutdownMessage
    \/ ShutdownJoined

SpecTasks == Init /\ [][NextTasks]_vars

\* The same with the event loop running every task that can take a step.
SpecTasksFair ==
    /\ SpecTasks
    /\ \A w \in 1..MaxWorkers : WF_vars(WorkerStep(w))
    /\ WF_vars(ShutdownJoined)

\* C31: at most one task of _message_worker is alive.
C31_OneWorker == Cardinality(LiveWorkers) <= 1

\* C36: once stop() has been called and every worker task has returned, the
\* messages that were put before the call have had their send made.
C36_QueuedBeforeStopSent ==
    (stop_call.called /\ worker_tasks # << >> /\ LiveWorkers = {})
    => attempted >= stop_call.puts

\* C39: while the notifier was started and stop() has not been called, the
\* n-th message put has its send to all chats made in the end, whatever the
\* sends before it returned.
C39_EveryMessageSent ==
    \A n \in 1..MaxPuts :
        (puts >= n /\ notifier_is_running /\ ~stop_call.called)
            ~> (attempted >= n \/ stop_call.called)

\* C39 witness: the send of the first message failed for every chat and a
\* worker has taken the second message from the queue.
C39_Witness ==
    /\ notifier_is_running /\ ~stop_call.called
    /\ attempted = 1
    /\ \A c \in ChatIds : last_sent.sends.attempts[c] = 1 /\ ~last_sent.sends.results[c]
    /\ \E w \in LiveWorkers : worker_tasks[w].pc = "send"

\* C40: a call of send_shutdown_message returns in the end.
C40_ShutdownReturns == (shutdown_pc = "join") ~> (shutdown_pc = "returned")

\* The local time zones of the process: UTC-5, UTC and UTC+2.
UtcOffsets == {-18000, 0, 7200}

InitDexScans ==
    /\ InitAnalyzer /\ InitPipeline /\ InitListener /\ InitProbe
    /\ InitPollers /\ InitDex /\ InitScheduler /\ InitMonitors /\ InitScanner
    /\ InitBlocks /\ InitSender /\ InitTasks
    /\ utc_offset \in UtcOffsets
    /\ dex_loop_pc = "idle"
    /\ scan_rounds = 0
    /\ last_scan = NoScan
    /\ returned_count = [a \in PairAddresses |-> 0]

\* The rounds of the Dexscreener poller, a minute apart.
NextDexScans ==
    \/ DexStartMonitoring
    \/ \E fetch \in Fetches(now) : DexScanRound(fetch)
    \/ DexSleepDone

SpecDexScans == InitDexScans /\ [][NextDexScans]_vars

\* C32: a fetch that fails returns no pair, the loop of start_monitoring
\* never ends, and after a round, failed or not, the loop sleeps and then
\* scans again.
C32_FailedFetchKeepsLoop ==
    /\ [](last_scan.error # "none" => (last_scan.count = 0 /\ last_scan.returned = {}))
    /\ [](dex_loop_pc # "ended")
    /\ [][scan_rounds' = scan_rounds + 1 => dex_loop_pc' = "sleep"]_vars
    /\ [][(dex_loop_pc = "sleep" /\ dex_loop_pc' # "sleep")
            => (dex_loop_pc' = "scan" /\ now' = now + 60)]_vars

\* C32 witness: the request of the first round timed out and the loop is at
\* its second round.
C32_Witness ==
    /\ last_scan.error = "TimeoutException"
    /\ scan_rounds = 1
    /\ dex_loop_pc = "scan"
    /\ now = 60

\* C33: no pair address has been returned by _get_latest_pairs more than
\* once, and every pair the last scan returned has a creation time that is
\* less than one hour before the scan.
C33_FreshOnce ==
    /\ \A a \in PairAddresses : returned_count[a] <= 1
    /\ \A p \in last_scan.returned :
          /\ p.created_at # 0
          /\ last_scan.at * 1000 - p.created_at < 3600 * 1000
          /\ last_scan.at * 1000 - p.created_at >= 0

\* The decimal digits, as the characters of an address.
Digits == {"0", "1", "2", "3", "4", "5", "6", "7", "8", "9"}

\* CACHE_MAX_ENTRIES addresses that are none of RawAddrs.
CachedKeys == {<<"0", "x", a, b, c>> : a, b, c \in Digits}

\* A cache at its ceiling at time CACHE_TTL_SECONDS: the entries whose
\* address begins with one of the digits of old were stored at time 0 and
\* have reached the TTL, the others were stored one second later.
FullCache(old) ==
    LET analysis == _parse_ai_response(Answer("ok", "json", GoodData))
    IN  [k \in CachedKeys |->
            [analysis |-> analysis, timestamp |-> IF k[3] \in old THEN 0 ELSE 1]]

\* The analyzer after a thousand scorings: no entry, a tenth of the entries
\* or every entry of the cache has reached the TTL.
InitCleanup ==
    /\ now = CACHE_TTL_SECONDS
    /\ ticks = 0
    /\ _analysis_cache \in {FullCache({}), FullCache({"0"}), FullCache(Digits)}
    /\ tasks = [i \in Slots |-> Idle]
    /\ ev = NoEvent
    /\ last_success = [k \in Keys |-> NeverScored]
    /\ InitPipeline /\ InitListener /\ InitProbe /\ InitService

\* Scorings at the instant at which the cache is full.
NextCleanup ==
    \/ \E raw \in RawAddrs : AnalyzeToken(raw)
    \/ \E i \in Slots, answer \in FewAnswers : ApiAnswer(i, answer)

SpecCleanup == InitCleanup /\ [][NextCleanup]_vars

\* One cached address of each group of FullCache.
SampledKeys == {<<"0", "x", a, "0", "0">> : a \in Digits}

\* C34: when an analysis is stored under a new address in a cache that holds
\* CACHE_MAX_ENTRIES entries, every entry that has reached the TTL is removed
\* and every entry younger than the TTL is kept as it was; the sampled ones
\* among the kept entries are returned by _get_cached_analysis afterwards.
C34_CleanupKeepsUnexpired ==
    [][(Cardinality(DOMAIN _analysis_cache) >= CACHE_MAX_ENTRIES
          /\ ev'.phase = "return" /\ ev'.ai # None
          /\ lower(ev'.address) \notin DOMAIN _analysis_cache)
        => LET kept == DOMAIN _analysis_cache'
           IN  \A k \in DOMAIN _analysis_cache :
                  IF now - _analysis_cache[k].timestamp < CACHE_TTL_SECONDS
                  THEN /\ k \in kept
                       /\ _analysis_cache'[k] = _analysis_cache[k]
                       /\ k \in SampledKeys =>
                             _get_cached_analysis(_analysis_cache', k, now')[1]
                               = _analysis_cache[k].analysis
                  ELSE k \notin kept]_vars

\* C34 witness: the insertion into the full cache has removed the hundred
\* expired entries and kept the nine hundred others.
C34_Witness ==
    /\ Cardinality(DOMAIN _analysis_cache) = CACHE_MAX_ENTRIES - 100 + 1
    /\ \E k \in Keys : k \in DOMAIN _analysis_cache
    /\ <<"0", "x", "1", "0", "0">> \in DOMAIN _analysis_cache
    /\ <<"0", "x", "0", "0", "0">> \notin DOMAIN _analysis_cache

\* C35: after a health check every registered service has exactly one status
\* in health_status['services']: the one under its own name, or for the
\* database and the chain listener the one under 'database' and
\* 'ethereum_websocket'.
C35_OneStatusPerService ==
    health_status # NoStatus =>
        \A s \in services :
            LET keys == {s} \cup (IF s = "db" THEN {"database"}
                                  ELSE IF s = "eth_listener" THEN {"ethereum_websocket"}
                                  ELSE {})
            IN  Cardinality(keys \cap DOMAIN health_status) = 1

\* C37: an analysis that analyze_token returns as COMPLETED, at the cache hit
\* or after the scoring, carries an AIAnalysis with a score from 0 to 10, a
\* confidence from 0 to 1 and one of the four recommendations; one it returns
\* as FAILED carries none.
C37_ReturnedAnalysisWellFormed ==
    (ev.op = "analyze_token" /\ ev.phase \in {"cached", "return"})
    => /\ ev.status = COMPLETED =>
            /\ ev.ai # None
            /\ 0 <= ev.ai.score /\ ev.ai.score <= SCORE_MAX
            /\ 0 <= ev.ai.confidence /\ ev.ai.confidence <= CONFIDENCE_MAX
            /\ ev.ai.recommendation \in Recommendation
       /\ ev.status = FAILED => ev.ai = None

\* C37 witness: a call has returned COMPLETED at the cache hit with the
\* analysis of an answer whose recommendation was none of the four, while
\* another address has no entry in the cache.
C37_Witness ==
    /\ ev.op = "analyze_token" /\ ev.phase = "cached" /\ ev.status = COMPLETED
    /\ ev.ai # None /\ ev.ai.recommendation = RESEARCH
    /\ \E k \in Keys : k \notin DOMAIN _analysis_cache

====
